---- MODULE Spec2Model ----
(***************************************************************************)
(* Effect derivation engine of tx-meta-effects-parser: one analyze() pass  *)
(* of EffectsAnalyzer over the ledger entry changes and the Soroban events *)
(* of a single operation, with the EventsAnalyzer call stack.              *)
(*                                                                         *)
(* JavaScript values are represented as follows.                           *)
(*  - A string whose content the code inspects (addresses, asset ids,      *)
(*    pool ids) is a record [prefix, len, dash, n]: its first character,   *)
(*    its length, whether it includes '-', and a number telling strings of *)
(*    the same kind apart. null is the record Null.                        *)
(*  - An amount is a decimal string in the code; it is the integer it      *)
(*    denotes here ('0' is 0, BigInt(s) is s, n.toString() is n).          *)
(*  - The reserves and shares of a liquidity pool, which can pass 2^53, are *)
(*    records [hi, lo] denoting hi * 2^53 + lo.                            *)
(*  - An object literal is a record; a field the code leaves out is out of *)
(*    the record's DOMAIN. Every effect object carries the field oid, its  *)
(*    object identity, so that two references to one object are equal oids.*)
(***************************************************************************)
EXTENDS Integers, Sequences, FiniteSets, TLC

VARIABLES
    operation,           \* this.operation (type, source, func)
    changes,             \* this.changes, the parsed ledger entry changes
    events,              \* this.events, contract events
    diagnosticEvents,    \* this.diagnosticEvents (<<>> when not set)
    processSystemEvents, \* this.processSystemEvents
    effects,             \* this.effects
    callStack,           \* EventsAnalyzer.callStack: oids of the pushed effects
    allocated,           \* number of effect objects created so far
    pc,                  \* stage of analyze() whose step ran last
    idx,                 \* index of the item that step handled
    error,               \* "" or the name of the error thrown
    calls                \* the calls a user of the engine's primitives makes

vars == <<operation, changes, events, diagnosticEvents, processSystemEvents,
          effects, callStack, allocated, pc, idx, error, calls>>

(***************************************************************************)
(* Bounds of the input lists.                                              *)
(***************************************************************************)
MaxCalls == 4
MaxTokenEvents == 2
MaxChanges == 2
MaxPrimitiveCalls == 2
MaxPoolChanges == 3
MaxFlagChanges == 2
MaxStorage == 2

(***************************************************************************)
(* Strings                                                                 *)
(***************************************************************************)
Str(prefix, len, dash, n) == [prefix |-> prefix, len |-> len, dash |-> dash, n |-> n]

Null == Str("null", 0, FALSE, 0)
GA == Str("G", 56, FALSE, 1)
GB == Str("G", 56, FALSE, 2)
CA == Str("C", 56, FALSE, 1)
CB == Str("C", 56, FALSE, 2)
XLM == Str("X", 3, FALSE, 0)
USD == Str("U", 62, TRUE, 1)
POOL == Str("a", 64, FALSE, 1)

IsNull(s) == s.prefix = "null"

\* The decimal string of hi * 2^53 + lo.
Amount(hi, lo) == [hi |-> hi, lo |-> lo]

\* The decimal string of a number below 2^53.
Small(n) == Amount(0, n)

\* BigInt(a) - BigInt(b), as a decimal string.
BigIntMinus(a, b) == Amount(a.hi - b.hi, a.lo - b.lo)

\* The IEEE 754 double nearest to an integer: every integer of magnitude up
\* to 2^53 is a double, and from 2^53 to 2^54 the doubles are the even
\* integers, a tie going to the multiple of 4.
RoundToDouble(v) ==
    LET Even(n) == IF n % 2 = 0 THEN n ELSE IF (n + 1) % 4 = 0 THEN n + 1 ELSE n - 1
    IN CASE v.hi = 1 /\ v.lo > 0 -> Amount(1, Even(v.lo))
         [] v.hi = -1 /\ v.lo < 0 -> Amount(-1, -Even(-v.lo))
         [] OTHER -> v

\* a - b for two decimal strings: both are converted to Number, and the
\* difference of the two doubles is rounded to a double.
NumberMinus(a, b) == RoundToDouble(BigIntMinus(RoundToDouble(a), RoundToDouble(b)))

EVENT_TYPES_CONTRACT == 1
EVENT_TYPES_DIAGNOSTIC == 2

(***************************************************************************)
(* The engine state a handler works on: m = [effects, callStack,           *)
(* allocated, error]. A handler is an operator from m to the m it leaves.  *)
(***************************************************************************)
Machine(e, c, a, err) == [effects |-> e, callStack |-> c, allocated |-> a, error |-> err]

Throw(m, name) == [m EXCEPT !.error = name]

Has(e, f) == f \in DOMAIN e

HasEq(e, f, v) == f \in DOMAIN e /\ e[f] = v

Min(a, b) == IF a < b THEN a ELSE b

\* Array.prototype.findIndex: 0-based index of the first match, -1 if none.
findIndex(seq, Test(_)) ==
    IF \E i \in 1..Len(seq) : Test(seq[i])
    THEN (CHOOSE i \in 1..Len(seq) : Test(seq[i]) /\ \A j \in 1..(i - 1) : ~Test(seq[j])) - 1
    ELSE -1

\* Array.prototype.splice(start, 0, item) for start >= 0.
Splice(seq, start, item) ==
    LET at == Min(start, Len(seq))
    IN SubSeq(seq, 1, at) \o <<item>> \o SubSeq(seq, at + 1, Len(seq))

\* A plausible slip: splice(start, 1, item) overwrites the effect at start.
addEffect_overwrite(m, effect, atPosition) ==
    LET sourced == IF Has(effect, "source") THEN effect
                   ELSE effect @@ ("source" :> operation.source)
        obj == sourced @@ ("oid" :> m.allocated + 1)
        at == IF atPosition = <<>> THEN Len(m.effects)
              ELSE IF atPosition[1] < 0 THEN 0 ELSE Min(atPosition[1], Len(m.effects))
    IN [m EXCEPT !.allocated = m.allocated + 1,
                 !.effects = SubSeq(m.effects, 1, at) \o <<obj>>
                             \o SubSeq(m.effects, at + 2, Len(m.effects))]

\* addEffect with a negative position treated like no position.
addEffect_missAppends(m, effect, atPosition) ==
    LET sourced == IF Has(effect, "source") THEN effect
                   ELSE effect @@ ("source" :> operation.source)
        obj == sourced @@ ("oid" :> m.allocated + 1)
    IN [m EXCEPT !.allocated = m.allocated + 1,
                 !.effects = IF atPosition # <<>> /\ atPosition[1] >= 0
                             THEN Splice(m.effects, atPosition[1], obj)
                             ELSE Append(m.effects, obj)]

\* EffectsAnalyzer.addEffect(effect, atPosition): atPosition is <<>> for
\* undefined and <<p>> for the number p.
addEffect(m, effect, atPosition) ==
    LET sourced == IF Has(effect, "source") THEN effect
                   ELSE effect @@ ("source" :> operation.source)
        obj == sourced @@ ("oid" :> m.allocated + 1)
    IN [m EXCEPT !.allocated = m.allocated + 1,
                 !.effects = IF atPosition # <<>>
                             THEN Splice(m.effects, IF atPosition[1] < 0 THEN 0 ELSE atPosition[1], obj)
                             ELSE Append(m.effects, obj)]

\* A plausible slip: the zero-amount guard is missing.
debit_nozero(m, amount, asset, source, balance) ==
    LET effect == [type |-> "accountDebited", source |-> source, asset |-> asset, amount |-> amount]
    IN addEffect(m, IF balance # <<>> THEN effect @@ ("balance" :> balance[1]) ELSE effect, <<>>)

\* EffectsAnalyzer.debit(amount, asset, source, balance): balance is <<>> for
\* undefined and <<b>> for the value b.
debit(m, amount, asset, source, balance) ==
    IF amount = 0 THEN m
    ELSE LET effect == [type |-> "accountDebited", source |-> source, asset |-> asset, amount |-> amount]
         IN addEffect(m, IF balance # <<>> THEN effect @@ ("balance" :> balance[1]) ELSE effect, <<>>)

\* EffectsAnalyzer.credit(amount, asset, source, balance)
credit(m, amount, asset, source, balance) ==
    IF amount = 0 THEN m
    ELSE LET effect == [type |-> "accountCredited", source |-> source, asset |-> asset, amount |-> amount]
         IN addEffect(m, IF balance # <<>> THEN effect @@ ("balance" :> balance[1]) ELSE effect, <<>>)

\* The asset an effect names, in its asset field or in its assets list.
MatchesAsset(e, asset) ==
    \/ HasEq(e, "asset", asset)
    \/ Has(e, "assets") /\ \E k \in 1..Len(e.assets) : e.assets[k].asset = asset

\* EffectsAnalyzer.mint(asset, amount, autoLookupPosition)
mint(m, asset, amount, autoLookupPosition) ==
    LET Test(e) == MatchesAsset(e, asset)
        position == IF autoLookupPosition THEN <<findIndex(m.effects, Test)>> ELSE <<>>
    IN addEffect(m, [type |-> "assetMinted", asset |-> asset, amount |-> amount], position)

\* EffectsAnalyzer.burn(asset, amount, position)
burn(m, asset, amount, position) ==
    addEffect(m, [type |-> "assetBurned", asset |-> asset, amount |-> amount], position)

(***************************************************************************)
(* Soroban values (xdr.ScVal): [arm, sym, addr, num]; the field the arm    *)
(* names holds the value xdrParseScVal gives, the others are unused.       *)
(***************************************************************************)
Sym(s) == [arm |-> "sym", sym |-> s, addr |-> Null, num |-> 0]
Addr(a) == [arm |-> "address", sym |-> "", addr |-> a, num |-> 0]
StrVal(s) == [arm |-> "str", sym |-> s, addr |-> Null, num |-> 0]
I128(n) == [arm |-> "i128", sym |-> "", addr |-> Null, num |-> n]
Void == [arm |-> "scvVoid", sym |-> "", addr |-> Null, num |-> 0]

\* xdrParseScVal(topics[0]) as the switch of processDiagnosticEvent reads it:
\* only a symbol can equal one of the case labels.
TopicName(topics) == IF topics[1].arm = "sym" THEN topics[1].sym ELSE ""

\* result.toXDR('base64'): the encoded raw value, told apart from the value.
ToXDRBase64(val) == [base64 |-> val]

\* A shape entry 'address' or 'str?' after the code has split off the '?'.
Shape(match, optional) == [match |-> match, optional |-> optional]

\* A plausible slip: an absent topic is accepted in every position.
matchEventTopicsShape_absentAccepted(topics, shape) ==
    IF Len(topics) > Len(shape) + 1 THEN FALSE
    ELSE \A i \in 1..Len(shape) :
            i + 1 <= Len(topics) => topics[i + 1].arm = shape[i].match

\* matchEventTopicsShape with one topic tolerated after the declared ones.
matchEventTopicsShape_oneExtra(topics, shape) ==
    IF Len(topics) > Len(shape) + 2 THEN FALSE
    ELSE \A i \in 1..Len(shape) :
            IF i + 1 <= Len(topics)
            THEN topics[i + 1].arm = shape[i].match
            ELSE shape[i].optional

\* matchEventTopicsShape(topics, shape)
matchEventTopicsShape(topics, shape) ==
    IF Len(topics) > Len(shape) + 1 THEN FALSE
    ELSE \A i \in 1..Len(shape) :
            IF i + 1 <= Len(topics)
            THEN topics[i + 1].arm = shape[i].match
            ELSE shape[i].optional

\* isContractAddress(address)
isContractAddress(address) == address.len = 56 /\ address.prefix = "C"

\* EventsAnalyzer.debit(from, asset, amount)
EventDebit(m, from, asset, amount) ==
    addEffect(m, [type |-> "accountDebited", source |-> from, asset |-> asset, amount |-> amount], <<>>)

\* EventsAnalyzer.credit(to, asset, amount)
EventCredit(m, to, asset, amount) ==
    addEffect(m, [type |-> "accountCredited", source |-> to, asset |-> asset, amount |-> amount], <<>>)

\* A plausible slip: the depth counts the frame being pushed.
FnCall_depthAfterPush(m, body) ==
    LET parsedEvent == [type |-> "contractInvoked", contract |-> body.topics[2].addr,
                        function |-> body.topics[3].sym, args |-> body.data.num]
        withDepth == IF Len(m.callStack) > 0
                     THEN parsedEvent @@ ("depth" :> Len(m.callStack) + 1)
                     ELSE parsedEvent
        pushed == [m EXCEPT !.callStack = Append(m.callStack, m.allocated + 1)]
    IN addEffect(pushed, withDepth, <<>>)

\* processDiagnosticEvent, case 'fn_call'. The frame pushed is the effect
\* object itself: the stack holds the oid addEffect is about to give it.
FnCall(m, body) ==
    LET parsedEvent == [type |-> "contractInvoked", contract |-> body.topics[2].addr,
                        function |-> body.topics[3].sym, args |-> body.data.num]
        withDepth == IF Len(m.callStack) > 0
                     THEN parsedEvent @@ ("depth" :> Len(m.callStack))
                     ELSE parsedEvent
        pushed == [m EXCEPT !.callStack = Append(m.callStack, m.allocated + 1)]
    IN addEffect(pushed, withDepth, <<>>)

\* object.field = value, on the effect object with this oid wherever it
\* stands in the list.
SetField(effs, oid, field, value) ==
    [i \in 1..Len(effs) |->
        IF effs[i].oid = oid
        THEN (field :> value) @@ effs[i]
        ELSE effs[i]]

\* A plausible slip: the result is attached whatever the return value is.
FnReturn_alwaysResult(m, body, type) ==
    IF type # EVENT_TYPES_DIAGNOSTIC THEN m
    ELSE IF m.callStack = <<>>
         THEN Throw(m, "TypeError")
         ELSE [m EXCEPT !.callStack = SubSeq(m.callStack, 1, Len(m.callStack) - 1),
                        !.effects = SetField(m.effects, m.callStack[Len(m.callStack)], "result",
                                              ToXDRBase64(body.data.num))]

\* processDiagnosticEvent, case 'fn_return'. pop() of an empty stack gives
\* undefined, and setting a field of undefined throws a TypeError.
FnReturn(m, body, type) ==
    IF type # EVENT_TYPES_DIAGNOSTIC THEN m
    ELSE IF m.callStack = <<>>
         THEN IF body.data.arm # "scvVoid" THEN Throw(m, "TypeError") ELSE m
         ELSE LET funcCall == m.callStack[Len(m.callStack)]
                  popped == [m EXCEPT !.callStack = SubSeq(m.callStack, 1, Len(m.callStack) - 1)]
              IN IF body.data.arm # "scvVoid"
                 THEN [popped EXCEPT !.effects = SetField(m.effects, funcCall, "result", ToXDRBase64(body.data.num))]
                 ELSE popped

\* A plausible slip: the classic branch books both sides like the other one.
Transfer_bothSides(m, body, contractId) ==
    LET from == body.topics[2].addr
        to == body.topics[3].addr
        asset == contractId
        amount == body.data.num
    IN IF IsNull(asset) THEN Throw(m, "TypeError")
       ELSE EventCredit(EventDebit(m, from, asset, amount), to, asset, amount)

\* processDiagnosticEvent, case 'transfer'. isContractAddress(null) reads
\* null.length, which throws a TypeError.
Transfer(m, body, contractId) ==
    LET from == body.topics[2].addr
        to == body.topics[3].addr
        asset == contractId
        amount == body.data.num
    IN IF IsNull(asset) THEN Throw(m, "TypeError")
       ELSE LET isClassicAsset == isContractAddress(asset)
                m1 == IF ~isClassicAsset \/ isContractAddress(from)
                      THEN EventDebit(m, from, asset, amount) ELSE m
            IN IF ~isClassicAsset \/ isContractAddress(to)
               THEN EventCredit(m1, to, asset, amount) ELSE m1

\* processDiagnosticEvent, case 'mint'
Mint(m, body, contractId) ==
    IF ~matchEventTopicsShape(body.topics,
            <<Shape("address", FALSE), Shape("address", FALSE), Shape("str", TRUE)>>)
    THEN Throw(m, "Error: Non-standard event")
    ELSE LET to == body.topics[2].addr
             amount == body.data.num
             m1 == addEffect(m, [type |-> "assetMinted", asset |-> contractId, amount |-> amount], <<>>)
         IN EventCredit(m1, to, contractId, amount)

\* processDiagnosticEvent, case 'burn'
Burn(m, body, contractId) ==
    IF ~matchEventTopicsShape(body.topics, <<Shape("address", FALSE), Shape("str", TRUE)>>)
    THEN Throw(m, "Error: Non-standard event")
    ELSE LET from == body.topics[2].addr
             amount == body.data.num
             m1 == EventDebit(m, from, contractId, amount)
         IN addEffect(m1, [type |-> "assetBurned", asset |-> contractId, amount |-> amount], <<>>)

\* A plausible slip: the abort is gone and the code after it runs.
Clawback_noAbort(m, body, contractId) ==
    IF ~matchEventTopicsShape(body.topics,
            <<Shape("address", FALSE), Shape("address", FALSE), Shape("str", TRUE)>>)
    THEN Throw(m, "Error: Non-standard event")
    ELSE LET admin == body.topics[2].addr
             from == body.topics[3].addr
             amount == body.data.num
         IN EventCredit(EventDebit(m, from, contractId, amount), admin, contractId, amount)

\* processDiagnosticEvent, case 'clawback': both paths throw.
Clawback(m, body, contractId) ==
    IF ~matchEventTopicsShape(body.topics,
            <<Shape("address", FALSE), Shape("address", FALSE), Shape("str", TRUE)>>)
    THEN Throw(m, "Error: Non-standard event")
    ELSE Throw(m, "Error: Check state modifications to confirm the clawback destination")

\* EventsAnalyzer.processDiagnosticEvent(body, type, contractId)
processDiagnosticEvent(m, body, type, contractId) ==
    LET name == TopicName(body.topics)
    IN CASE name = "fn_call" -> FnCall(m, body)
         [] name = "fn_return" -> FnReturn(m, body, type)
         [] name = "transfer" -> Transfer(m, body, contractId)
         [] name = "mint" -> Mint(m, body, contractId)
         [] name = "burn" -> Burn(m, body, contractId)
         [] name = "clawback" -> Clawback(m, body, contractId)
         [] OTHER -> m

\* analyzeDiagnosticEvent with the events of failed calls skipped.
analyzeDiagnosticEvent_skipFailed(m, evt) ==
    IF ~evt.inSuccessfulContractCall
    THEN m
    ELSE processDiagnosticEvent(m, evt.body, evt.type, evt.contractId)

\* One iteration of the loop of EventsAnalyzer.analyzeDiagnosticEvents.
analyzeDiagnosticEvent(m, evt) ==
    IF ~evt.inSuccessfulContractCall
    THEN Throw(m, "UnexpectedTxMetaChangeError")
    ELSE processDiagnosticEvent(m, evt.body, evt.type, evt.contractId)

\* One iteration of the loop of EventsAnalyzer.analyzeEvents.
analyzeEvent(m, evt) ==
    IF Len(evt.body.topics) >= 2
       /\ evt.body.topics[1].sym = "DATA" /\ evt.body.topics[2].sym = "set"
    THEN m
    ELSE addEffect(m, [type |-> "contractEvent", contract |-> evt.contractId,
                       topics |-> evt.body.topics, data |-> evt.body.data], <<>>)

(***************************************************************************)
(* Ledger entry change classifiers. A change is [type, action, before,     *)
(* after]; the snapshot a created or removed change lacks is not a field.  *)
(***************************************************************************)
\* The effects of the external signer differ for two account snapshots:
\* one per signer key that appeared or disappeared.
analyzeSignerChanges(change) ==
    LET before == IF Has(change, "before") THEN change.before.signers ELSE <<>>
        after == IF Has(change, "after") THEN change.after.signers ELSE <<>>
        InSeq(x, seq) == \E k \in 1..Len(seq) : seq[k] = x
        Removed(k) == ~InSeq(before[k], after)
        Created(k) == ~InSeq(after[k], before)
    IN [k \in 1..Len(SelectSeq([j \in 1..Len(before) |-> j], Removed)) |->
            [type |-> "accountSignerRemoved",
             signer |-> before[SelectSeq([j \in 1..Len(before) |-> j], Removed)[k]]]]
       \o
       [k \in 1..Len(SelectSeq([j \in 1..Len(after) |-> j], Created)) |->
            [type |-> "accountSignerCreated",
             signer |-> after[SelectSeq([j \in 1..Len(after) |-> j], Created)[k]]]]

RECURSIVE addEffects(_, _)
\* for (const effect of list) this.addEffect(effect)
addEffects(m, list) ==
    IF list = <<>> THEN m ELSE addEffects(addEffect(m, Head(list), <<>>), Tail(list))

\* A plausible slip: the resulting balance reported is the one before.
processBalanceChange_staleBalance(m, account, asset, beforeBalance, afterBalance) ==
    LET balanceChange == afterBalance - beforeBalance
    IN IF balanceChange < 0
       THEN debit(m, -balanceChange, asset, account, <<beforeBalance>>)
       ELSE credit(m, balanceChange, asset, account, <<beforeBalance>>)

\* EffectsAnalyzer.processBalanceChange(account, asset, beforeBalance, afterBalance)
processBalanceChange(m, account, asset, beforeBalance, afterBalance) ==
    LET balanceChange == afterBalance - beforeBalance
    IN IF balanceChange < 0
       THEN debit(m, -balanceChange, asset, account, <<afterBalance>>)
       ELSE credit(m, balanceChange, asset, account, <<afterBalance>>)

WithSponsor(effect, snapshot) ==
    IF Has(snapshot, "sponsor") THEN effect @@ ("sponsor" :> snapshot.sponsor) ELSE effect

\* The signers of a snapshot that have a sponsor, in the order of its
\* signers list, each as [key, sponsor]: the entries of signersMap.
SponsoredSigners(state) ==
    IF Has(state, "signerSponsoringIDs") /\ Len(state.signerSponsoringIDs) > 0
    THEN LET all == [i \in 1..Len(state.signers) |->
                        [key |-> state.signers[i], sponsor |-> state.signerSponsoringIDs[i]]]
         IN SelectSeq(all, LAMBDA s : ~IsNull(s.sponsor))
    ELSE <<>>

\* signersMap[key]: <<sponsor>>, or <<>> when the map has no such key. A key
\* listed twice keeps the sponsor set last.
SponsorOf(map, key) ==
    LET at == SelectSeq(map, LAMBDA s : s.key = key)
    IN IF at = <<>> THEN <<>> ELSE <<at[Len(at)].sponsor>>

\* EffectsAnalyzer.processSignerSponsorshipEffects({before, after}): each of
\* the two loops stops at the first effect it adds.
processSignerSponsorshipEffects(m, before, after) ==
    LET Listed(state) == Has(state, "signerSponsoringIDs") /\ Len(state.signerSponsoringIDs) > 0
        beforeMap == SponsoredSigners(before)
        afterMap == SponsoredSigners(after)
        Changed(s) == SponsorOf(afterMap, s.key) # <<SponsorOf(beforeMap, s.key)[1]>>
        changed == SelectSeq(beforeMap, Changed)
        m1 == IF changed = <<>> THEN m
              ELSE LET signerKey == changed[1].key
                       newSponsor == SponsorOf(afterMap, signerKey)
                   IN IF newSponsor = <<>>
                      THEN addEffect(m, [type |-> "signerSponsorshipRemoved", account |-> before.address,
                                         signer |-> signerKey,
                                         prevSponsor |-> SponsorOf(beforeMap, signerKey)[1]], <<>>)
                      ELSE addEffect(m, [type |-> "signerSponsorshipUpdated", account |-> before.address,
                                         signer |-> signerKey, sponsor |-> newSponsor[1],
                                         prevSponsor |-> SponsorOf(beforeMap, signerKey)[1]], <<>>)
        New(s) == SponsorOf(beforeMap, s.key) = <<>>
        created == SelectSeq(afterMap, New)
    IN IF ~Listed(before) /\ ~Listed(after) THEN m
       ELSE IF created = <<>> THEN m1
       ELSE addEffect(m1, [type |-> "signerSponsorshipCreated", account |-> after.address,
                           signer |-> created[1].key,
                           sponsor |-> SponsorOf(afterMap, created[1].key)[1]], <<>>)

\* EffectsAnalyzer.processAccountChanges({action, before, after})
processAccountChanges(m, change) ==
    LET m1 ==
          CASE change.action = "created" ->
                 LET after == change.after
                     accountCreated == WithSponsor([type |-> "accountCreated", account |-> after.address], after)
                     ma == addEffect(m, accountCreated, <<>>)
                 IN IF after.balance > 0
                    THEN credit(ma, after.balance, XLM, after.address, <<after.balance>>)
                    ELSE ma
            [] change.action = "updated" ->
                 LET before == change.before
                     after == change.after
                     mb == IF before.balance # after.balance
                           THEN processBalanceChange(m, after.address, XLM, before.balance, after.balance)
                           ELSE m
                 IN IF operation.type \in {"setOptions", "revokeSignerSponsorship"}
                    THEN processSignerSponsorshipEffects(mb, before, after)
                    ELSE mb
            [] change.action = "removed" ->
                 LET before == change.before
                     mc == IF before.balance > 0
                           THEN debit(m, before.balance, XLM, before.address, <<0>>)
                           ELSE m
                 IN addEffect(mc, WithSponsor([type |-> "accountRemoved"], before), <<>>)
            [] OTHER -> m
    IN addEffects(m1, analyzeSignerChanges(change))

\* A plausible slip: the removal effect is added before the final debit.
processTrustlineEffectsChanges_removalFirst(m, change) ==
    LET snapshot == IF Has(change, "after") THEN change.after ELSE change.before
        trustEffect == WithSponsor([type |-> "", source |-> snapshot.account, asset |-> snapshot.asset,
                                    kind |-> IF snapshot.asset.dash THEN "asset" ELSE "poolShares",
                                    flags |-> snapshot.flags], snapshot)
    IN CASE change.action = "created" ->
              addEffect(m, [trustEffect EXCEPT !.type = "trustlineCreated"] @@ ("limit" :> snapshot.limit), <<>>)
         [] change.action = "updated" ->
              LET before == change.before
                  after == change.after
                  m1 == IF before.balance # after.balance
                        THEN processBalanceChange(m, after.account, after.asset, before.balance, after.balance)
                        ELSE m
              IN IF before.limit = after.limit /\ before.flags = after.flags
                 THEN m1
                 ELSE addEffect(m1, [trustEffect EXCEPT !.type = "trustlineUpdated"] @@ ("limit" :> snapshot.limit), <<>>)
         [] change.action = "removed" ->
              LET before == change.before
                  m1 == addEffect(m, [trustEffect EXCEPT !.type = "trustlineRemoved"], <<>>)
              IN IF before.balance > 0
                 THEN processBalanceChange(m1, before.account, before.asset, before.balance, 0)
                 ELSE m1
         [] OTHER -> addEffect(m, trustEffect, <<>>)

\* EffectsAnalyzer.processTrustlineEffectsChanges({action, before, after})
processTrustlineEffectsChanges(m, change) ==
    LET snapshot == IF Has(change, "after") THEN change.after ELSE change.before
        trustEffect == WithSponsor([type |-> "", source |-> snapshot.account, asset |-> snapshot.asset,
                                    kind |-> IF snapshot.asset.dash THEN "asset" ELSE "poolShares",
                                    flags |-> snapshot.flags], snapshot)
    IN CASE change.action = "created" ->
              addEffect(m, [trustEffect EXCEPT !.type = "trustlineCreated"] @@ ("limit" :> snapshot.limit), <<>>)
         [] change.action = "updated" ->
              LET before == change.before
                  after == change.after
                  m1 == IF before.balance # after.balance
                        THEN processBalanceChange(m, after.account, after.asset, before.balance, after.balance)
                        ELSE m
              IN IF before.limit = after.limit /\ before.flags = after.flags
                 THEN m1
                 ELSE addEffect(m1, [trustEffect EXCEPT !.type = "trustlineUpdated"] @@ ("limit" :> snapshot.limit), <<>>)
         [] change.action = "removed" ->
              LET before == change.before
                  m1 == IF before.balance > 0
                        THEN processBalanceChange(m, before.account, before.asset, before.balance, 0)
                        ELSE m
              IN addEffect(m1, [trustEffect EXCEPT !.type = "trustlineRemoved"], <<>>)
         [] OTHER -> addEffect(m, trustEffect, <<>>)

\* A plausible slip: the created effect is appended like the others.
processLiquidityPoolChanges_appended(m, change) ==
    LET snapshot == IF Has(change, "after") THEN change.after ELSE change.before
        effect == WithSponsor([type |-> "liquidityPoolRemoved", pool |-> snapshot.pool], snapshot)
        after == change.after
    IN CASE change.action = "created" ->
              addEffect(m, [effect EXCEPT !.type = "liquidityPoolCreated"]
                           @@ [reserves |-> [i \in 1..Len(after.asset) |->
                                               [asset |-> after.asset[i], amount |-> Small(0)]],
                               shares |-> Small(0), accounts |-> 1], <<>>)
         [] change.action = "updated" ->
              addEffect(m, [effect EXCEPT !.type = "liquidityPoolUpdated"]
                           @@ [reserves |-> [i \in 1..Len(after.asset) |->
                                               [asset |-> after.asset[i], amount |-> after.amount[i]]],
                               shares |-> after.shares, accounts |-> after.accounts], <<>>)
         [] OTHER -> addEffect(m, effect, <<>>)

\* EffectsAnalyzer.processLiquidityPoolChanges({action, before, after})
processLiquidityPoolChanges(m, change) ==
    LET snapshot == IF Has(change, "after") THEN change.after ELSE change.before
        effect == WithSponsor([type |-> "liquidityPoolRemoved", pool |-> snapshot.pool], snapshot)
    IN CASE change.action = "created" ->
              LET after == change.after
                  created == [effect EXCEPT !.type = "liquidityPoolCreated"]
                             @@ [reserves |-> [i \in 1..Len(after.asset) |->
                                                 [asset |-> after.asset[i], amount |-> Small(0)]],
                                 shares |-> Small(0), accounts |-> 1]
                  Test(e) == HasEq(e, "pool", effect.pool) \/ HasEq(e, "asset", effect.pool)
              IN addEffect(m, created, <<findIndex(m.effects, Test)>>)
         [] change.action = "updated" ->
              LET after == change.after
                  updated == [effect EXCEPT !.type = "liquidityPoolUpdated"]
                             @@ [reserves |-> [i \in 1..Len(after.asset) |->
                                                 [asset |-> after.asset[i], amount |-> after.amount[i]]],
                                 shares |-> after.shares, accounts |-> after.accounts]
              IN addEffect(m, updated, <<>>)
         [] OTHER -> addEffect(m, effect, <<>>)

\* A JavaScript array: a value no string is equal to.
Array(items) == [items |-> items]

\* A plausible slip: an updated offer yields its effect whether or not a
\* compared field changed.
processOfferChanges_noSuppression(m, change) ==
    LET snapshot == IF Has(change, "after") THEN change.after ELSE change.before
        effect == WithSponsor([type |-> "offerRemoved", owner |-> snapshot.account, offer |-> snapshot.id,
                               asset |-> snapshot.asset, flags |-> snapshot.flags], snapshot)
    IN CASE change.action = "created" ->
              addEffect(m, [effect EXCEPT !.type = "offerCreated"]
                           @@ [amount |-> change.after.amount, price |-> change.after.price], <<>>)
         [] change.action = "updated" ->
              addEffect(m, [effect EXCEPT !.type = "offerUpdated"]
                           @@ [amount |-> change.after.amount, price |-> change.after.price], <<>>)
         [] OTHER -> addEffect(m, effect, <<>>)

\* EffectsAnalyzer.processOfferChanges({action, before, after})
processOfferChanges(m, change) ==
    LET snapshot == IF Has(change, "after") THEN change.after ELSE change.before
        effect == WithSponsor([type |-> "offerRemoved", owner |-> snapshot.account, offer |-> snapshot.id,
                               asset |-> snapshot.asset, flags |-> snapshot.flags], snapshot)
    IN CASE change.action = "created" ->
              addEffect(m, [effect EXCEPT !.type = "offerCreated"]
                           @@ [amount |-> change.after.amount, price |-> change.after.price], <<>>)
         [] change.action = "updated" ->
              LET before == change.before
                  after == change.after
              IN IF before.price = after.price /\ before.asset.items = after.asset.items
                    /\ before.amount = after.amount
                 THEN m
                 ELSE addEffect(m, [effect EXCEPT !.type = "offerUpdated"]
                                   @@ [amount |-> after.amount, price |-> after.price], <<>>)
         [] OTHER -> addEffect(m, effect, <<>>)

\* EffectsAnalyzer.processClaimableBalanceChanges({action, before, after})
processClaimableBalanceChanges(m, change) ==
    LET Snapshot(type, s) == WithSponsor([type |-> type, balance |-> s.balanceId, asset |-> s.asset,
                                          amount |-> s.amount, claimants |-> s.claimants], s)
    IN CASE change.action = "created" -> addEffect(m, Snapshot("claimableBalanceCreated", change.after), <<>>)
         [] change.action = "removed" -> addEffect(m, Snapshot("claimableBalanceRemoved", change.before), <<>>)
         [] OTHER -> m

\* EffectsAnalyzer.processDataEntryChanges({action, before, after})
processDataEntryChanges(m, change) ==
    LET snapshot == IF Has(change, "after") THEN change.after ELSE change.before
        effect == [type |-> "", name |-> snapshot.name, value |-> ToXDRBase64(snapshot.value)]
    IN CASE change.action = "created" ->
              addEffect(m, WithSponsor([effect EXCEPT !.type = "dataEntryCreated"], snapshot), <<>>)
         [] change.action = "updated" ->
              IF change.before.value = change.after.value THEN m
              ELSE addEffect(m, WithSponsor([effect EXCEPT !.type = "dataEntryUpdated"], snapshot), <<>>)
         [] change.action = "removed" ->
              addEffect(m, WithSponsor([type |-> "dataEntryRemoved", name |-> snapshot.name], snapshot), <<>>)
         [] OTHER -> addEffect(m, WithSponsor(effect, snapshot), <<>>)

RECURSIVE InstanceDataChanges(_, _, _, _)
\* The loops of processInstanceDataChanges: the entries of storageBefore in
\* turn, each taking its first match out of storageAfter, then the entries
\* left in storageAfter.
InstanceDataChanges(m, owner, storageBefore, storageAfter) ==
    IF storageBefore = <<>>
    THEN addEffects(m, [i \in 1..Len(storageAfter) |->
                          [type |-> "contractDataCreated", owner |-> owner, key |-> storageAfter[i].key,
                           value |-> storageAfter[i].val, durability |-> "instance"]])
    ELSE LET entry == Head(storageBefore)
             at == findIndex(storageAfter, LAMBDA a : a.key = entry.key) + 1
             rest == IF at = 0 THEN storageAfter
                     ELSE SubSeq(storageAfter, 1, at - 1) \o SubSeq(storageAfter, at + 1, Len(storageAfter))
             m1 == IF at = 0
                   THEN addEffect(m, [type |-> "contractDataRemoved", owner |-> owner, key |-> entry.key,
                                      prevValue |-> entry.val, durability |-> "instance"], <<>>)
                   ELSE IF entry.val = storageAfter[at].val THEN m
                   ELSE addEffect(m, [type |-> "contractDataUpdated", owner |-> owner, key |-> entry.key,
                                      value |-> storageAfter[at].val, prevValue |-> entry.val,
                                      durability |-> "instance"], <<>>)
         IN InstanceDataChanges(m1, owner, Tail(storageBefore), rest)

\* EffectsAnalyzer.processInstanceDataChanges(before, after)
processInstanceDataChanges(m, before, after) ==
    InstanceDataChanges(m, after.contract,
                        IF Has(before, "storage") THEN before.storage ELSE <<>>,
                        IF Has(after, "storage") THEN after.storage ELSE <<>>)

\* processContractChanges with the instance storage compared only when the
\* code hash changed.
processContractChanges_hashGate(m, change) ==
    IF change.action \notin {"created", "updated"}
    THEN Throw(m, "UnexpectedTxMetaChangeError")
    ELSE LET after == change.after
             effect == [type |-> "contractCreated", contract |-> after.contract, kind |-> after.kind,
                        wasmHash |-> after.hash]
         IN IF change.action = "created"
            THEN IF \E i \in 1..Len(m.effects) : HasEq(m.effects[i], "contract", after.contract)
                 THEN m
                 ELSE addEffect(m, effect, <<>>)
            ELSE LET before == change.before
                 IN IF before.hash = after.hash THEN m
                    ELSE addEffect(processInstanceDataChanges(m, before, after),
                                   [effect EXCEPT !.type = "contractUpdated"]
                                   @@ [prevWasmHash |-> before.hash], <<>>)

\* EffectsAnalyzer.processContractChanges({action, before, after})
processContractChanges(m, change) ==
    IF change.action \notin {"created", "updated"}
    THEN Throw(m, "UnexpectedTxMetaChangeError")
    ELSE LET after == change.after
             effect == [type |-> "contractCreated", contract |-> after.contract, kind |-> after.kind,
                        wasmHash |-> after.hash]
         IN IF change.action = "created"
            THEN IF \E i \in 1..Len(m.effects) : HasEq(m.effects[i], "contract", after.contract)
                 THEN m
                 ELSE addEffect(m, effect, <<>>)
            ELSE LET before == change.before
                     HasStorage(s) == Has(s, "storage") /\ Len(s.storage) > 0
                     m1 == IF HasStorage(before) \/ HasStorage(after)
                           THEN processInstanceDataChanges(m, before, after)
                           ELSE m
                 IN IF before.hash = after.hash THEN m1
                    ELSE addEffect(m1, [effect EXCEPT !.type = "contractUpdated"]
                                       @@ [prevWasmHash |-> before.hash], <<>>)

(***************************************************************************)
(* Contract data. A key is [arm, parts]; a value is [arm, typed, amount]:  *)
(* typed tells whether the parsed map has a boolean clawback, a boolean    *)
(* authorized and a string amount.                                         *)
(***************************************************************************)
\* A plausible slip: the first matching effect is patched even when several
\* effects match.
processContractBalance_firstMatch(m, effect) ==
    LET parsedKey == effect.key
        keyParts == parsedKey.parts
    IN IF parsedKey.arm # "vec" THEN m
       ELSE IF Len(keyParts) # 2 THEN m
       ELSE IF keyParts[1].arm # "sym" \/ keyParts[2].arm # "address" \/ keyParts[1].sym # "Balance" THEN m
       ELSE LET account == keyParts[2].addr
                IsBalanceEffect(e) == /\ Has(e, "type")
                                      /\ e.type \in {"accountCredited", "accountDebited"}
                                      /\ e.source = account
                                      /\ HasEq(e, "asset", effect.owner)
                balanceEffects == SelectSeq(m.effects, IsBalanceEffect)
            IN IF Len(balanceEffects) < 1 THEN m
               ELSE IF effect.type = "contractDataRemoved"
                    THEN [m EXCEPT !.effects = SetField(m.effects, balanceEffects[1].oid, "balance", 0)]
                    ELSE LET value == effect.value
                         IN IF value.arm # "map" THEN m
                            ELSE IF ~value.typed THEN m
                            ELSE [m EXCEPT !.effects =
                                     SetField(m.effects, balanceEffects[1].oid, "balance", value.amount)]

\* EffectsAnalyzer.processContractBalance(effect)
processContractBalance(m, effect) ==
    LET parsedKey == effect.key
        keyParts == parsedKey.parts
    IN IF parsedKey.arm # "vec" THEN m
       ELSE IF Len(keyParts) # 2 THEN m
       ELSE IF keyParts[1].arm # "sym" \/ keyParts[2].arm # "address" \/ keyParts[1].sym # "Balance" THEN m
       ELSE LET account == keyParts[2].addr
                IsBalanceEffect(e) == /\ Has(e, "type")
                                      /\ e.type \in {"accountCredited", "accountDebited"}
                                      /\ e.source = account
                                      /\ HasEq(e, "asset", effect.owner)
                balanceEffects == SelectSeq(m.effects, IsBalanceEffect)
            IN IF Len(balanceEffects) # 1 THEN m
               ELSE IF effect.type = "contractDataRemoved"
                    THEN [m EXCEPT !.effects = SetField(m.effects, balanceEffects[1].oid, "balance", 0)]
                    ELSE LET value == effect.value
                         IN IF value.arm # "map" THEN m
                            ELSE IF ~value.typed THEN m
                            ELSE [m EXCEPT !.effects =
                                     SetField(m.effects, balanceEffects[1].oid, "balance", value.amount)]

\* EffectsAnalyzer.processContractDataChanges({action, before, after})
processContractDataChanges(m, change) ==
    LET snapshot == IF Has(change, "after") THEN change.after ELSE change.before
        effect == [type |-> "", owner |-> snapshot.owner, durability |-> snapshot.durability,
                   key |-> snapshot.key]
        Added(e) == LET m1 == addEffect(m, e, <<>>)
                    IN processContractBalance(m1, m1.effects[Len(m1.effects)])
    IN CASE change.action = "created" ->
              Added([effect EXCEPT !.type = "contractDataCreated"] @@ ("value" :> change.after.value))
         [] change.action = "updated" ->
              IF change.before.value = change.after.value THEN m
              ELSE Added([effect EXCEPT !.type = "contractDataUpdated"]
                         @@ [value |-> change.after.value, prevValue |-> change.before.value])
         [] change.action = "removed" ->
              Added([effect EXCEPT !.type = "contractDataRemoved"] @@ ("prevValue" :> change.before.value))
         [] OTHER -> Added(effect)

(***************************************************************************)
(* Sponsorship pass                                                        *)
(***************************************************************************)
\* The sponsorship entries of the effect types table: the names the spec's
\* Sponsorship Effect Namer maps an entity kind and an action to.
SponsorshipEffectTypes ==
    { type \o "Sponsorship" \o actionKey :
        type \in {"account", "trustline", "offer", "data", "claimableBalance", "liquidityPool", "signer"},
        actionKey \in {"Created", "Updated", "Removed"} }

\* encodeSponsorshipEffectName(action, type), for the three known actions:
\* <<name>> when the table has the entry, <<>> (undefined) when it has not.
encodeSponsorshipEffectName(action, type) ==
    LET actionKey == CASE action = "created" -> "Created"
                       [] action = "updated" -> "Updated"
                       [] action = "removed" -> "Removed"
        name == type \o "Sponsorship" \o actionKey
    IN IF name \in SponsorshipEffectTypes THEN <<name>> ELSE <<>>

\* One iteration of the loop of EffectsAnalyzer.processSponsorshipEffects.
processSponsorshipEffect(m, change) ==
    LET type == change.type
        action == change.action
        Sponsor(snapshot) == IF Has(snapshot, "sponsor") THEN <<snapshot.sponsor>> ELSE <<>>
        skip == CASE action = "created" -> Sponsor(change.after) = <<>>
                  [] action = "updated" -> Sponsor(change.before) = Sponsor(change.after)
                  [] action = "removed" -> Sponsor(change.before) = <<>>
                  [] OTHER -> FALSE
        sponsorship ==
            CASE action = "created" -> [sponsor |-> change.after.sponsor]
              [] action = "updated" ->
                   (IF Has(change.after, "sponsor") THEN [sponsor |-> change.after.sponsor] ELSE <<>>)
                   @@ (IF Has(change.before, "sponsor") THEN [prevSponsor |-> change.before.sponsor] ELSE <<>>)
              [] action = "removed" -> [prevSponsor |-> change.before.sponsor]
              [] OTHER -> <<>>
        snapshot == IF Has(change, "before") THEN change.before ELSE change.after
        identity ==
            CASE type = "account" -> [account |-> snapshot.address]
              [] type = "trustline" -> [account |-> snapshot.account, asset |-> snapshot.asset]
              [] type = "offer" -> [account |-> snapshot.account, offer |-> snapshot.id]
              [] type = "data" -> [account |-> snapshot.account, name |-> snapshot.name]
              [] type = "claimableBalance" -> [balance |-> snapshot.balanceId]
              [] OTHER -> <<>>
    IN IF skip THEN m
       ELSE IF type = "liquidityPool" THEN m
       ELSE IF action \notin {"created", "updated", "removed"}
            THEN Throw(m, "UnexpectedTxMetaChangeError")
       ELSE LET name == encodeSponsorshipEffectName(action, type)
                effect == sponsorship @@ identity
            IN addEffect(m, IF name # <<>> THEN effect @@ ("type" :> name[1]) ELSE effect, <<>>)

\* invokeHostFunction with the top-level effect added whether or not
\* diagnostic events were supplied.
invokeHostFunction_alwaysTopLevel(m) ==
    LET func == operation.func
    IN CASE func.arm = "invokeContract" ->
              addEffect(m, [type |-> "contractInvoked", contract |-> func.contractAddress,
                            function |-> func.functionName, args |-> func.args,
                            rawArgs |-> ToXDRBase64(func.args)], <<>>)
         [] func.arm = "wasm" ->
              addEffect(m, [type |-> "contractCodeUploaded", wasm |-> func.wasm,
                            wasmHash |-> [hash |-> func.wasm]], <<>>)
         [] func.arm = "createContract" ->
              LET effect == [type |-> "contractCreated", contract |-> func.contract]
              IN CASE func.executableType = "contractExecutableWasm" ->
                        addEffect(m, effect @@ [kind |-> "wasm", wasmHash |-> func.wasmHash], <<>>)
                   [] func.executableType = "contractExecutableStellarAsset" ->
                        CASE func.preimage = "contractIdPreimageFromAddress" ->
                               addEffect(m, effect @@ [kind |-> "fromAddress", issuer |-> func.address,
                                                       salt |-> func.salt], <<>>)
                          [] func.preimage = "contractIdPreimageFromAsset" ->
                               addEffect(m, effect @@ [kind |-> "fromAsset", asset |-> func.asset], <<>>)
                          [] OTHER -> Throw(m, "TxMetaEffectParserError")
                   [] OTHER -> Throw(m, "TxMetaEffectParserError")
         [] OTHER -> Throw(m, "TxMetaEffectParserError")

(***************************************************************************)
(* Operation handlers                                                      *)
(***************************************************************************)
\* EffectsAnalyzer.invokeHostFunction()
invokeHostFunction(m) ==
    LET func == operation.func
    IN CASE func.arm = "invokeContract" ->
              IF diagnosticEvents = <<>>
              THEN addEffect(m, [type |-> "contractInvoked", contract |-> func.contractAddress,
                                 function |-> func.functionName, args |-> func.args,
                                 rawArgs |-> ToXDRBase64(func.args)], <<>>)
              ELSE m
         [] func.arm = "wasm" ->
              addEffect(m, [type |-> "contractCodeUploaded", wasm |-> func.wasm,
                            wasmHash |-> [hash |-> func.wasm]], <<>>)
         [] func.arm = "createContract" ->
              LET effect == [type |-> "contractCreated", contract |-> func.contract]
              IN CASE func.executableType = "contractExecutableWasm" ->
                        addEffect(m, effect @@ [kind |-> "wasm", wasmHash |-> func.wasmHash], <<>>)
                   [] func.executableType = "contractExecutableStellarAsset" ->
                        CASE func.preimage = "contractIdPreimageFromAddress" ->
                               addEffect(m, effect @@ [kind |-> "fromAddress", issuer |-> func.address,
                                                       salt |-> func.salt], <<>>)
                          [] func.preimage = "contractIdPreimageFromAsset" ->
                               addEffect(m, effect @@ [kind |-> "fromAsset", asset |-> func.asset], <<>>)
                          [] OTHER -> Throw(m, "TxMetaEffectParserError")
                   [] OTHER -> Throw(m, "TxMetaEffectParserError")
         [] OTHER -> Throw(m, "TxMetaEffectParserError")

\* EffectsAnalyzer.liquidityPoolDeposit(): find() gives undefined when no
\* change matches, and destructuring undefined throws a TypeError.
liquidityPoolDeposit(m) ==
    LET IsPoolUpdate(ch) == /\ ch.type = "liquidityPool"
                            /\ ch.action = "updated"
                            /\ ch.after.pool = operation.liquidityPoolId
        found == SelectSeq(changes, IsPoolUpdate)
    IN IF found = <<>> THEN Throw(m, "TypeError")
       ELSE LET before == found[1].before
                after == found[1].after
            IN addEffect(m, [type |-> "liquidityPoolDeposited", pool |-> operation.liquidityPoolId,
                             assets |-> [i \in 1..Len(after.asset) |->
                                           [asset |-> after.asset[i],
                                            amount |-> NumberMinus(after.amount[i], before.amount[i])]],
                             shares |-> NumberMinus(after.shares, before.shares)], <<>>)

\* The lookup this[this.operation.type] of analyze() and the call of the
\* handler found, for the operation kinds of Operations.
\* xdrParseAsset(asset) for an asset given by code and issuer: the asset's
\* string.
xdrParseAsset(asset) ==
    IF asset.code = "USD" /\ asset.issuer = GB THEN USD ELSE Str("U", 62, TRUE, 0)

\* EffectsAnalyzer.setTrustLineFlags(), the loop over the changes from the
\* i-th on: one liquidityPoolWithdrew per liquidity pool change; reading
\* before.pool of a change without a before snapshot throws.
RECURSIVE PoolWithdrawals(_, _)
PoolWithdrawals(m, i) ==
    IF i > Len(changes) \/ m.error # "" THEN m
    ELSE LET change == changes[i]
         IN IF change.type # "liquidityPool" THEN PoolWithdrawals(m, i + 1)
            ELSE IF ~Has(change, "before") THEN Throw(m, "TypeError")
            ELSE LET before == change.before
                     amounts == [k \in 1..Len(before.asset) |->
                                   [asset |-> before.asset[k],
                                    amount |-> BigIntMinus(before.amount[k],
                                                  IF Has(change, "after") THEN change.after.amount[k]
                                                  ELSE Small(0))]]
                     shares == BigIntMinus(before.shares,
                                  IF Has(change, "after") THEN change.after.shares ELSE Small(0))
                 IN PoolWithdrawals(
                        addEffect(m, [type |-> "liquidityPoolWithdrew", source |-> operation.trustor,
                                      pool |-> before.pool, assets |-> amounts, shares |-> shares], <<>>),
                        i + 1)

\* EffectsAnalyzer.setTrustLineFlags(); find() reads before.asset of every
\* trustline change it passes, which throws for a created one.
setTrustLineFlags(m) ==
    IF Len(changes) = 0 THEN m
    ELSE LET trustAsset == xdrParseAsset(IF Has(operation, "asset") THEN operation.asset
                                         ELSE [code |-> operation.assetCode, issuer |-> operation.source])
             Stops(ch) == ch.type = "trustline" /\ (Has(ch, "before") => ch.before.asset = trustAsset)
             at == findIndex(changes, Stops)
         IN IF at < 0 THEN m
            ELSE LET trustlineChange == changes[at + 1]
                 IN IF ~Has(trustlineChange, "before") THEN Throw(m, "TypeError")
                    ELSE IF trustlineChange.action # "updated"
                    THEN Throw(m, "UnexpectedTxMetaChangeError")
                    ELSE IF trustlineChange.before.flags = trustlineChange.after.flags THEN m
                    ELSE PoolWithdrawals(
                             addEffect(m, [type |-> "trustlineAuthorizationUpdated",
                                           trustor |-> operation.trustor,
                                           asset |-> trustlineChange.after.asset,
                                           flags |-> trustlineChange.after.flags,
                                           prevFlags |-> trustlineChange.before.flags], <<>>),
                             1)

\* EffectsAnalyzer.allowTrust()
allowTrust(m) == setTrustLineFlags(m)

parse(m) ==
    CASE operation.type = "invokeHostFunction" -> invokeHostFunction(m)
      [] operation.type = "liquidityPoolDeposit" -> liquidityPoolDeposit(m)
      [] operation.type = "allowTrust" -> allowTrust(m)
      [] operation.type = "setTrustLineFlags" -> setTrustLineFlags(m)
      [] OTHER -> m

(***************************************************************************)
(* Asset supply pass: the mint and burn calls the reconciler may make on   *)
(* the engine, one per pass here.                                          *)
(***************************************************************************)
SupplyCalls ==
    {<<"none", XLM, FALSE>>}
    \cup { <<call, asset, lookup>> : call \in {"mint", "burn"}, asset \in {USD, CA}, lookup \in BOOLEAN }

AssetSupplyAnalyzer(m, call) ==
    LET asset == call[2]
        Test(e) == MatchesAsset(e, asset)
    IN CASE call[1] = "mint" -> mint(m, asset, 1, call[3])
         [] call[1] = "burn" -> burn(m, asset, 1, IF call[3] THEN <<findIndex(m.effects, Test)>> ELSE <<>>)
         [] OTHER -> m

(***************************************************************************)
(* Inputs of one analysis                                                  *)
(***************************************************************************)
Body(topics, data) == [topics |-> topics, data |-> data]

DiagnosticEvent(ok, type, contractId, topics, data) ==
    [inSuccessfulContractCall |-> ok, type |-> type, contractId |-> contractId,
     body |-> Body(topics, data)]

\* Events of nested contract calls.
CallEvents == <<
    DiagnosticEvent(TRUE, EVENT_TYPES_DIAGNOSTIC, Null, <<Sym("fn_call"), Addr(CA), Sym("swap")>>, I128(1)),
    DiagnosticEvent(TRUE, EVENT_TYPES_DIAGNOSTIC, CA, <<Sym("fn_return"), Sym("swap")>>, Void),
    DiagnosticEvent(TRUE, EVENT_TYPES_DIAGNOSTIC, CA, <<Sym("fn_return"), Sym("swap")>>, I128(7)),
    DiagnosticEvent(TRUE, EVENT_TYPES_CONTRACT, CA, <<Sym("fn_return"), Sym("swap")>>, I128(7)),
    DiagnosticEvent(TRUE, EVENT_TYPES_CONTRACT, CA, <<Sym("fn_call"), Addr(CB), Sym("hook")>>, I128(2)),
    DiagnosticEvent(TRUE, EVENT_TYPES_CONTRACT, CA, <<Sym("transfer"), Addr(GA), Addr(CB)>>, I128(5)) >>

\* Token events, an unknown event and an event of a failed call.
TokenEvents == <<
    DiagnosticEvent(TRUE, EVENT_TYPES_CONTRACT, CA, <<Sym("transfer"), Addr(GA), Addr(GB)>>, I128(5)),
    DiagnosticEvent(TRUE, EVENT_TYPES_CONTRACT, CA, <<Sym("transfer"), Addr(GA), Addr(CB)>>, I128(5)),
    DiagnosticEvent(TRUE, EVENT_TYPES_CONTRACT, CA, <<Sym("transfer"), Addr(CB), Addr(GA)>>, I128(5)),
    DiagnosticEvent(TRUE, EVENT_TYPES_CONTRACT, CA, <<Sym("transfer"), Addr(CA), Addr(CB)>>, I128(5)),
    DiagnosticEvent(TRUE, EVENT_TYPES_DIAGNOSTIC, Null, <<Sym("transfer"), Addr(GA), Addr(GB)>>, I128(5)),
    DiagnosticEvent(TRUE, EVENT_TYPES_CONTRACT, CA, <<Sym("mint"), Addr(GA), Addr(GB)>>, I128(3)),
    DiagnosticEvent(TRUE, EVENT_TYPES_CONTRACT, CA, <<Sym("mint"), Addr(GA), Addr(CB), StrVal("USD")>>, I128(3)),
    DiagnosticEvent(TRUE, EVENT_TYPES_CONTRACT, CA, <<Sym("mint"), Addr(GA)>>, I128(3)),
    DiagnosticEvent(TRUE, EVENT_TYPES_CONTRACT, CA, <<Sym("burn"), Addr(GA)>>, I128(3)),
    DiagnosticEvent(TRUE, EVENT_TYPES_CONTRACT, CA, <<Sym("burn"), Sym("GA")>>, I128(3)),
    DiagnosticEvent(TRUE, EVENT_TYPES_CONTRACT, CA, <<Sym("clawback"), Addr(GA), Addr(GB)>>, I128(3)),
    DiagnosticEvent(TRUE, EVENT_TYPES_CONTRACT, CA, <<Sym("clawback"), Addr(GA)>>, I128(3)),
    DiagnosticEvent(TRUE, EVENT_TYPES_CONTRACT, CA, <<Sym("approve"), Addr(GA), Addr(GB)>>, I128(3)),
    DiagnosticEvent(FALSE, EVENT_TYPES_CONTRACT, CA, <<Sym("transfer"), Addr(GA), Addr(CB)>>, I128(5)),
    DiagnosticEvent(TRUE, EVENT_TYPES_CONTRACT, CA, <<Sym("burn"), Addr(GA), StrVal("USD")>>, I128(3)),
    DiagnosticEvent(TRUE, EVENT_TYPES_CONTRACT, CA, <<Sym("burn"), Addr(GA), Addr(GB)>>, I128(3)),
    DiagnosticEvent(TRUE, EVENT_TYPES_CONTRACT, CA, <<Sym("burn"), Addr(GA), StrVal("USD"), Addr(GB)>>, I128(3)),
    DiagnosticEvent(FALSE, EVENT_TYPES_DIAGNOSTIC, Null, <<Sym("approve"), Addr(GA), Addr(GB)>>, I128(3)),
    DiagnosticEvent(TRUE, EVENT_TYPES_CONTRACT, CA,
                    <<Sym("mint"), Addr(GA), Addr(GB), StrVal("USD"), Addr(GA)>>, I128(3)),
    DiagnosticEvent(TRUE, EVENT_TYPES_CONTRACT, CA,
                    <<Sym("clawback"), Addr(GA), Addr(GB), StrVal("USD"), Addr(GA)>>, I128(3)) >>

\* Contract events: [contractId, body].
ContractEvents == <<
    [contractId |-> CA, body |-> Body(<<Sym("transfer"), Addr(GA), Addr(GB)>>, I128(5))],
    [contractId |-> CA, body |-> Body(<<Sym("DATA"), Sym("set")>>, I128(5))] >>

Account(address, balance, signers) == [address |-> address, balance |-> balance, signers |-> signers]

Trustline(account, asset, balance, limit, flags) ==
    [account |-> account, asset |-> asset, balance |-> balance, limit |-> limit, flags |-> flags]

Pool(pool, amount, shares, accounts) ==
    [pool |-> pool, asset |-> <<XLM, USD>>, amount |-> amount, shares |-> shares, accounts |-> accounts]

Offer(account, id, amount, price) ==
    [account |-> account, id |-> id, asset |-> Array(<<XLM, USD>>), amount |-> amount, price |-> price,
     flags |-> 0]

BalanceKey(account) == [arm |-> "vec", parts |-> <<Sym("Balance"), Addr(account)>>]

BalanceValue(amount) == [arm |-> "map", typed |-> TRUE, amount |-> amount]

ContractData(owner, key, value) ==
    [owner |-> owner, key |-> key, value |-> value, durability |-> "persistent"]

Created(type, after) == [type |-> type, action |-> "created", after |-> after]
Updated(type, before, after) == [type |-> type, action |-> "updated", before |-> before, after |-> after]
Removed(type, before) == [type |-> type, action |-> "removed", before |-> before]

Changes == <<
    Created("account", Account(GB, 100, <<>>) @@ [sponsor |-> GA]),
    Created("account", Account(GB, 0, <<>>)),
    Updated("account", Account(GA, 100, <<>>), Account(GA, 150, <<>>)),
    Updated("account", Account(GA, 150, <<>>), Account(GA, 100, <<GB>>)),
    Updated("account", Account(GA, 100, <<GB>>), Account(GA, 100, <<>>) @@ [sponsor |-> GB]),
    Removed("account", Account(GA, 40, <<>>)),
    Removed("account", Account(GA, 0, <<>>)),
    Created("trustline", Trustline(GA, USD, 0, 1000, 1)),
    Updated("trustline", Trustline(GA, USD, 10, 1000, 1), Trustline(GA, USD, 40, 1000, 1)),
    Updated("trustline", Trustline(GA, USD, 40, 1000, 1), Trustline(GA, USD, 10, 500, 1)),
    Updated("trustline", Trustline(GA, USD, 40, 1000, 1), Trustline(GA, USD, 40, 1000, 1)),
    Updated("trustline", Trustline(GB, POOL, 0, 1000, 1), Trustline(GB, POOL, 25, 1000, 1)),
    Removed("trustline", Trustline(GA, USD, 40, 1000, 1) @@ [sponsor |-> GB]),
    Removed("trustline", Trustline(GA, USD, 0, 1000, 1)),
    Removed("trustline", Trustline(GB, POOL, 25, 1000, 1)),
    Created("liquidityPool", Pool(POOL, <<Small(0), Small(0)>>, Small(0), 1)),
    Updated("liquidityPool", Pool(POOL, <<Small(100), Small(200)>>, Small(1000), 1),
                             Pool(POOL, <<Small(150), Small(260)>>, Small(1100), 2)),
    Removed("liquidityPool", Pool(POOL, <<Small(0), Small(0)>>, Small(0), 0)),
    Created("contractData", ContractData(CA, BalanceKey(GA), BalanceValue(9))),
    Updated("contractData", ContractData(CA, BalanceKey(CB), BalanceValue(4)),
                            ContractData(CA, BalanceKey(CB), BalanceValue(9))),
    Removed("contractData", ContractData(CA, BalanceKey(GA), BalanceValue(5))),
    Updated("account", Account(GA, 100, <<GB>>) @@ [signerSponsoringIDs |-> <<GB>>],
                       Account(GA, 100, <<GB, CB>>) @@ [signerSponsoringIDs |-> <<Null, GA>>]),
    Created("offer", [account |-> GA, id |-> 7, asset |-> Array(<<XLM, USD>>), amount |-> 10,
                      price |-> 2, flags |-> 0, sponsor |-> GB]),
    Removed("data", [account |-> GA, name |-> "k", value |-> 1]),
    Created("claimableBalance", [balanceId |-> POOL, asset |-> USD, amount |-> 10, claimants |-> <<GB>>,
                                 sponsor |-> GA]),
    Created("contract", [contract |-> CA, kind |-> "wasm", hash |-> 1]),
    Updated("contract", [contract |-> CA, kind |-> "wasm", hash |-> 1,
                         storage |-> <<[key |-> 1, val |-> 1], [key |-> 2, val |-> 1]>>],
                        [contract |-> CA, kind |-> "wasm", hash |-> 2,
                         storage |-> <<[key |-> 2, val |-> 5], [key |-> 3, val |-> 1]>>]),
    Created("contractData", ContractData(CA, BalanceKey(GA), BalanceValue(9)) @@ [sponsor |-> GB]),
    [type |-> "account", action |-> "restored", after |-> Account(GA, 100, <<>>) @@ [sponsor |-> GB]],
    Created("contractData", ContractData(CA, BalanceKey(GA), [arm |-> "map", typed |-> FALSE, amount |-> 9])),
    Updated("offer", Offer(GA, 7, 10, 2), Offer(GA, 7, 10, 2)),
    Updated("offer", Offer(GA, 7, 10, 2), Offer(GA, 7, 4, 2)) >>

\* The changes of a liquidity pool and of the trustlines to its shares, and
\* a change that has nothing to do with the pool.
PoolChanges ==
    SelectSeq(Changes, LAMBDA c :
        LET snapshot == IF Has(c, "after") THEN c.after ELSE c.before
        IN c.type = "liquidityPool" \/ (c.type = "trustline" /\ snapshot.asset = POOL))
    \o << Changes[3],
           Updated("liquidityPool", Pool(POOL, <<Amount(1, 1), Small(200)>>, Small(1000), 1),
                                    Pool(POOL, <<Amount(1, 2), Small(260)>>, Small(1100), 1)) >>

Operations == <<
    [type |-> "payment", source |-> GA],
    [type |-> "revokeSignerSponsorship", source |-> GA],
    [type |-> "invokeHostFunction", source |-> GA,
     func |-> [arm |-> "invokeContract", contractAddress |-> CA, functionName |-> "swap", args |-> 1]],
    [type |-> "invokeHostFunction", source |-> GA, func |-> [arm |-> "wasm", wasm |-> 1]],
    [type |-> "liquidityPoolDeposit", source |-> GA, liquidityPoolId |-> POOL],
    [type |-> "invokeHostFunction", source |-> GA,
     func |-> [arm |-> "createContract", executableType |-> "contractExecutableWasm",
               contract |-> CA, wasmHash |-> 1]],
    [type |-> "invokeHostFunction", source |-> GA,
     func |-> [arm |-> "createContract", executableType |-> "contractExecutableStellarAsset",
               preimage |-> "contractIdPreimageFromAsset", contract |-> CB, asset |-> USD]],
    [type |-> "setTrustLineFlags", source |-> GB, trustor |-> GA,
     asset |-> [code |-> "USD", issuer |-> GB]],
    [type |-> "allowTrust", source |-> GB, trustor |-> GA, assetCode |-> "USD"],
    [type |-> "allowTrust", source |-> GA, trustor |-> GB, assetCode |-> "USD"] >>

\* The changes a trustline flags operation may come with: the trustline with
\* its authorization revoked, granted or kept, its clawback flag cleared, the
\* trustline created or removed, changes of a pool and of a pool share
\* trustline, and an account.
FlagChanges == <<
    Updated("trustline", Trustline(GA, USD, 40, 1000, 1), Trustline(GA, USD, 40, 1000, 0)),
    Updated("trustline", Trustline(GA, USD, 40, 1000, 0), Trustline(GA, USD, 40, 1000, 1)),
    Updated("trustline", Trustline(GA, USD, 40, 1000, 5), Trustline(GA, USD, 40, 1000, 1)),
    Changes[11], Changes[16], Changes[17], Changes[18], Changes[8], Changes[14], Changes[15],
    Changes[3] >>

\* The lists of at least min and at most max indices into an alphabet.
IndexLists(alphabet, min, max) == UNION { [1..n -> 1..Len(alphabet)] : n \in min..max }

\* The list of the items of an alphabet that a list of indices names.
Items(alphabet, indices) == [i \in 1..Len(indices) |-> alphabet[indices[i]]]

(***************************************************************************)
(* The analyze() pass as a state machine. pc is the stage whose step ran   *)
(* last and idx the item it handled; NextItem is the step that runs next.  *)
(***************************************************************************)
\* The stages with the events interpreted before the ledger entry changes.
Stages_eventsFirst == <<"operation", "diagnosticEvents", "events", "changes", "sponsorship",
                        "supply", "contractData", "return">>

Stages == <<"operation", "changes", "sponsorship", "diagnosticEvents", "events",
            "supply", "contractData", "return">>

StageOf(name) == CHOOSE k \in 1..Len(Stages) : Stages[k] = name

\* The number of iterations of a stage's loop.
Size(k) ==
    CASE Stages[k] \in {"changes", "sponsorship", "contractData"} -> Len(changes)
      [] Stages[k] = "diagnosticEvents" -> Len(diagnosticEvents)
      [] Stages[k] = "events" -> Len(events)
      [] OTHER -> 1

\* The iterations that have a body to run: the final loop of analyze() only
\* handles the contractData changes.
Handled(k, i) == Stages[k] = "contractData" => changes[i].type = "contractData"

RECURSIVE ItemAfter(_, _)
ItemAfter(k, i) ==
    IF \E j \in (i + 1)..Size(k) : Handled(k, j)
    THEN <<Stages[k], CHOOSE j \in (i + 1)..Size(k) :
                         Handled(k, j) /\ \A h \in (i + 1)..(j - 1) : ~Handled(k, h)>>
    ELSE ItemAfter(k + 1, 0)

NextItem ==
    IF pc = "constructed" THEN <<"operation", 1>>
    ELSE IF pc = "return" \/ error # "" THEN <<"none", 0>>
    ELSE ItemAfter(StageOf(pc), idx)

Current == Machine(effects, callStack, allocated, error)

\* The step took the engine to m while handling item i of a stage.
Becomes(stage, i, m) ==
    /\ effects' = m.effects
    /\ callStack' = m.callStack
    /\ allocated' = m.allocated
    /\ error' = m.error
    /\ pc' = stage
    /\ idx' = i
    /\ UNCHANGED <<operation, changes, events, diagnosticEvents, processSystemEvents, calls>>

\* const parse = this[this.operation.type]; if (parse) parse.call(this)
Parse ==
    /\ NextItem[1] = "operation"
    /\ Becomes("operation", 1, parse(Current))

\* EffectsAnalyzer.processChanges(), one change
processChange(m, change) ==
    CASE change.type = "account" -> processAccountChanges(m, change)
      [] change.type = "trustline" -> processTrustlineEffectsChanges(m, change)
      [] change.type = "claimableBalance" -> processClaimableBalanceChanges(m, change)
      [] change.type = "offer" -> processOfferChanges(m, change)
      [] change.type = "liquidityPool" -> processLiquidityPoolChanges(m, change)
      [] change.type = "data" -> processDataEntryChanges(m, change)
      [] change.type = "contractData" -> m
      [] change.type = "contract" -> processContractChanges(m, change)
      [] OTHER -> Throw(m, "UnexpectedTxMetaChangeError")

ProcessChanges ==
    /\ NextItem[1] = "changes"
    /\ Becomes("changes", NextItem[2], processChange(Current, changes[NextItem[2]]))

ProcessSponsorshipEffects ==
    /\ NextItem[1] = "sponsorship"
    /\ Becomes("sponsorship", NextItem[2], processSponsorshipEffect(Current, changes[NextItem[2]]))

AnalyzeDiagnosticEvents ==
    /\ NextItem[1] = "diagnosticEvents"
    /\ Becomes("diagnosticEvents", NextItem[2],
               analyzeDiagnosticEvent(Current, diagnosticEvents[NextItem[2]]))

AnalyzeEvents ==
    /\ NextItem[1] = "events"
    /\ Becomes("events", NextItem[2], analyzeEvent(Current, events[NextItem[2]]))

AnalyzeSupply ==
    /\ NextItem[1] = "supply"
    /\ \E call \in SupplyCalls : Becomes("supply", 1, AssetSupplyAnalyzer(Current, call))

ProcessContractData ==
    /\ NextItem[1] = "contractData"
    /\ Becomes("contractData", NextItem[2], processContractDataChanges(Current, changes[NextItem[2]]))

\* return this.effects
Return ==
    /\ NextItem[1] = "return"
    /\ Becomes("return", 1, Current)

\* new EffectsAnalyzer({operation, ..., diagnosticEvents, processSystemEvents}):
\* the diagnostic events are kept only when the list is not empty, and the
\* flag only with them.
Constructed(op, chs, evts, diag, flag) ==
    /\ operation = op
    /\ changes = chs
    /\ events = evts
    /\ diagnosticEvents = diag
    /\ processSystemEvents = (flag /\ Len(diag) > 0)
    /\ effects = <<>>
    /\ callStack = <<>>
    /\ allocated = 0
    /\ pc = "constructed"
    /\ idx = 0
    /\ error = ""
    /\ calls = <<>>

\* A contract invocation with nested calls.
CallInputs ==
    \E d \in IndexLists(CallEvents, 0, MaxCalls), flag \in BOOLEAN :
        Constructed(Operations[3], <<>>, <<>>, Items(CallEvents, d), flag)

\* A contract invocation with token events.
TokenInputs ==
    \E d \in IndexLists(TokenEvents, 0, MaxTokenEvents), e \in IndexLists(ContractEvents, 0, 1),
       flag \in BOOLEAN :
        Constructed(Operations[3], <<>>, Items(ContractEvents, e), Items(TokenEvents, d), flag)

\* A payment with ledger entry changes and no events.
ChangeInputs ==
    \E c \in IndexLists(Changes, 0, MaxChanges) :
        Constructed(Operations[1], Items(Changes, c), <<>>, <<>>, FALSE)

\* Any operation with at most one ledger entry change and no events.
OperationInputs ==
    \E o \in 2..Len(Operations), c \in IndexLists(Changes, 0, 1) :
        Constructed(Operations[o], Items(Changes, c), <<>>, <<>>, FALSE)

\* A contract invocation with one change and one token event, or with one
\* contract data change and two token events.
MixedInputs ==
    \E c \in IndexLists(Changes, 1, 1), d \in IndexLists(TokenEvents, 1, 2) :
        /\ Len(d) = 2 => Changes[c[1]].type = "contractData"
        /\ Constructed(Operations[3], Items(Changes, c), <<>>, Items(TokenEvents, d), TRUE)

\* A payment or a deposit with changes of a liquidity pool.
PoolInputs ==
    \E o \in {1, 5}, c \in IndexLists(PoolChanges, MaxPoolChanges, MaxPoolChanges) :
        Constructed(Operations[o], Items(PoolChanges, c), <<>>, <<>>, FALSE)

\* A contract invocation or creation with input for every stage: a change of
\* a classic entry, a contract data change, one diagnostic event and one
\* contract event.
StageInputs ==
    \E o \in {3, 6}, c \in IndexLists(Changes, 2, 2), d \in IndexLists(TokenEvents, 1, 1),
       e \in IndexLists(ContractEvents, 1, 1) :
        /\ Changes[c[1]].type \in {"account", "trustline", "offer"}
        /\ Changes[c[2]].type = "contractData"
        /\ Constructed(Operations[o], Items(Changes, c), Items(ContractEvents, e),
                       Items(TokenEvents, d), TRUE)

\* The instance storage lists of a contract: entries {key, val} over three
\* keys and two values, repeated keys included.
Storages ==
    UNION { [1..n -> [key : {1, 2, 3}, val : {1, 2}]] : n \in 0..MaxStorage }

\* A contract invocation that updates a contract instance, its code hash
\* kept or changed; an empty storage list may also be absent.
StorageInputs ==
    \E storageBefore \in Storages, storageAfter \in Storages, hash \in {1, 2}, absent \in BOOLEAN :
        LET Instance(h, storage) ==
                IF absent /\ storage = <<>>
                THEN [contract |-> CA, kind |-> "wasm", hash |-> h]
                ELSE [contract |-> CA, kind |-> "wasm", hash |-> h, storage |-> storage]
        IN Constructed(Operations[3],
                       <<Updated("contract", Instance(1, storageBefore), Instance(hash, storageAfter))>>,
                       <<>>, <<>>, FALSE)

\* A trustline flags operation with its changes.
FlagInputs ==
    \E o \in {8, 9, 10}, c \in IndexLists(FlagChanges, 1, MaxFlagChanges) :
        Constructed(Operations[o], Items(FlagChanges, c), <<>>, <<>>, FALSE)

Init ==
    \/ CallInputs \/ TokenInputs \/ ChangeInputs \/ OperationInputs \/ MixedInputs \/ PoolInputs
    \/ StageInputs \/ FlagInputs \/ StorageInputs

Next ==
    \/ Parse
    \/ ProcessChanges
    \/ ProcessSponsorshipEffects
    \/ AnalyzeDiagnosticEvents
    \/ AnalyzeEvents
    \/ AnalyzeSupply
    \/ ProcessContractData
    \/ Return

Spec == Init /\ [][Next]_vars

(***************************************************************************)
(* The debit and credit primitives of the engine, called directly on a     *)
(* fresh engine with every combination of arguments.                       *)
(***************************************************************************)
PrimitiveCalls ==
    [fn : {"debit", "credit"}, amount : {0, 5}, asset : {XLM, CA}, source : {GA},
     balance : {<<>>, <<0>>, <<9>>}]

CallPrimitive ==
    /\ pc \in {"constructed", "primitive"}
    /\ idx < Len(calls)
    /\ LET call == calls[idx + 1]
       IN Becomes("primitive", idx + 1,
                  IF call.fn = "debit"
                  THEN debit(Current, call.amount, call.asset, call.source, call.balance)
                  ELSE credit(Current, call.amount, call.asset, call.source, call.balance))

InitPrimitives ==
    /\ \E n \in 0..MaxPrimitiveCalls : calls \in [1..n -> PrimitiveCalls]
    /\ operation = Operations[1]
    /\ changes = <<>>
    /\ events = <<>>
    /\ diagnosticEvents = <<>>
    /\ processSystemEvents = FALSE
    /\ effects = <<>>
    /\ callStack = <<>>
    /\ allocated = 0
    /\ pc = "constructed"
    /\ idx = 0
    /\ error = ""

NextPrimitives == CallPrimitive

SpecPrimitives == InitPrimitives /\ [][NextPrimitives]_vars

(***************************************************************************)
(* Properties                                                              *)
(***************************************************************************)
\* The effects the step under way adds: the objects it creates.
AddedEffects == SelectSeq(effects', LAMBDA e : e.oid > allocated)

OfType(effs, types) == SelectSeq(effs, LAMBDA e : Has(e, "type") /\ e.type \in types)

IsFnCall(evt) == TopicName(evt.body.topics) = "fn_call"

IsDiagnosticFnReturn(evt) ==
    TopicName(evt.body.topics) = "fn_return" /\ evt.type = EVENT_TYPES_DIAGNOSTIC

RECURSIVE OpenCalls(_, _)
\* The calls open after the first k events of a list, outermost first, each
\* named by its rank among the fn_call events of the list.
OpenCalls(list, k) ==
    IF k = 0 THEN <<>>
    ELSE LET open == OpenCalls(list, k - 1)
             rank == Len(SelectSeq(SubSeq(list, 1, k), IsFnCall))
         IN IF IsFnCall(list[k]) THEN Append(open, rank)
            ELSE IF IsDiagnosticFnReturn(list[k]) /\ open # <<>> THEN SubSeq(open, 1, Len(open) - 1)
            ELSE open

\* fn_call and diagnostic fn_return events are properly nested and matched.
WellNested(list) ==
    /\ \A k \in 1..Len(list) : IsDiagnosticFnReturn(list[k]) => OpenCalls(list, k - 1) # <<>>
    /\ OpenCalls(list, Len(list)) = <<>>

\* The loop over the diagnostic events has run to its end.
DiagnosticEventsProcessed ==
    /\ error = ""
    /\ diagnosticEvents # <<>>
    /\ \/ pc = "diagnosticEvents" /\ idx = Len(diagnosticEvents)
       \/ pc \in {"events", "supply", "contractData", "return"}

\* C1: after a well-nested diagnostic event list has been processed the call
\* stack is empty, and the effect of the j-th fn_call has no depth field when
\* no call was open at that fn_call and otherwise has depth equal to the
\* number of calls open then.
CallStackBalance ==
    (DiagnosticEventsProcessed /\ WellNested(diagnosticEvents)) =>
        /\ callStack = <<>>
        /\ LET invoked == OfType(effects, {"contractInvoked"})
               callAt == SelectSeq([k \in 1..Len(diagnosticEvents) |-> k],
                                   LAMBDA k : IsFnCall(diagnosticEvents[k]))
           IN /\ Len(invoked) = Len(callAt)
              /\ \A j \in 1..Len(callAt) :
                    LET enclosing == Len(OpenCalls(diagnosticEvents, callAt[j] - 1))
                    IN IF enclosing = 0
                       THEN ~Has(invoked[j], "depth")
                       ELSE HasEq(invoked[j], "depth", enclosing)

\* A call nested in another has returned, then the outer one.
CallStackBalanceWitness ==
    /\ DiagnosticEventsProcessed
    /\ WellNested(diagnosticEvents)
    /\ pc = "diagnosticEvents"
    /\ callStack = <<>>
    /\ \E i \in 1..Len(effects) : HasEq(effects[i], "depth", 1)
    /\ \E i \in 1..Len(effects) : effects[i].type = "contractInvoked" /\ ~Has(effects[i], "depth")

\* C2: a diagnostic fn_return pops the frame of the innermost open call and
\* sets result on that call's effect, where it stands in the list, exactly
\* when the value returned is not void; a fn_return of another event class
\* changes neither the stack nor the list; no other effect changes and the
\* list keeps its length.
FnReturnPatchesTopFrame ==
    [][ (/\ NextItem[1] = "diagnosticEvents"
         /\ diagnosticEvents[NextItem[2]].inSuccessfulContractCall
         /\ TopicName(diagnosticEvents[NextItem[2]].body.topics) = "fn_return") =>
        LET k == NextItem[2]
            evt == diagnosticEvents[k]
            open == OpenCalls(diagnosticEvents, k - 1)
            invoked == OfType(effects, {"contractInvoked"})
        IN /\ Len(effects') = Len(effects)
           /\ IF evt.type = EVENT_TYPES_DIAGNOSTIC /\ open # <<>>
              THEN LET frame == invoked[open[Len(open)]]
                   IN /\ callStack # <<>>
                      /\ callStack[Len(callStack)] = frame.oid
                      /\ callStack' = SubSeq(callStack, 1, Len(callStack) - 1)
                      /\ \A i \in 1..Len(effects) :
                            IF effects[i].oid = frame.oid /\ evt.body.data.arm # "scvVoid"
                            THEN /\ effects'[i] = ("result" :> ToXDRBase64(evt.body.data.num)) @@ effects[i]
                                 /\ ~Has(effects[i], "result")
                            ELSE effects'[i] = effects[i]
              ELSE /\ effects' = effects
                   /\ callStack' = callStack
      ]_vars

\* The inner of two open calls has returned a value: its effect has the
\* result, the outer call's effect has none and is still on the stack.
FnReturnPatchesTopFrameWitness ==
    /\ pc = "diagnosticEvents"
    /\ error = ""
    /\ idx = 3
    /\ IsDiagnosticFnReturn(diagnosticEvents[idx])
    /\ Len(effects) = 2
    /\ ~Has(effects[1], "result")
    /\ HasEq(effects[2], "result", ToXDRBase64(7))
    /\ callStack = <<effects[1].oid>>

\* C3: with diagnostic events supplied and processSystemEvents not set, no
\* diagnostic event adds or changes an effect and the call stack stays empty.
DiagnosticEventsNeedProcessSystemEvents ==
    [][ (NextItem[1] = "diagnosticEvents" /\ ~processSystemEvents) =>
            (effects' = effects /\ callStack' = <<>>) ]_vars

\* An effect as a later step may leave it: as it was, or with one field set.
SameOrPatched(old, new) ==
    /\ new.oid = old.oid
    /\ DOMAIN old \subseteq DOMAIN new
    /\ \E f \in DOMAIN new : \A g \in (DOMAIN new) \ {f} : g \in DOMAIN old /\ new[g] = old[g]

\* C4: in every step of a pass the effects that were in the list before the
\* step are all in it after the step, in the same relative order, each as it
\* was or with a field patched; the list never gets shorter, and it grows by
\* exactly the effects the step creates.
EffectsNeverRemovedNorReordered ==
    [][ LET kept == SelectSeq(effects', LAMBDA e : e.oid <= allocated)
        IN /\ Len(effects') >= Len(effects)
           /\ Len(effects') - Len(effects) = allocated' - allocated
           /\ Len(kept) = Len(effects)
           /\ \A i \in 1..Len(effects) : SameOrPatched(effects[i], kept[i])
      ]_vars

\* A liquidityPoolCreated effect has been inserted ahead of the effect that
\* was in the list before it.
EffectsNeverRemovedNorReorderedWitness ==
    /\ pc = "changes"
    /\ idx = 2
    /\ changes[2].type = "liquidityPool"
    /\ Len(effects) = 2
    /\ effects[1].type = "liquidityPoolCreated"
    /\ effects[2].type = "accountCredited"
    /\ effects[1].oid > effects[2].oid

\* C5: debit and credit leave the list alone when the amount is '0', and
\* otherwise append one accountDebited or accountCredited effect, with the
\* balance field exactly when a balance was passed.
ZeroAmountSuppression ==
    [][ idx < Len(calls) =>
        LET call == calls[idx + 1]
            n == Len(effects)
        IN IF call.amount = 0
           THEN effects' = effects
           ELSE /\ Len(effects') = n + 1
                /\ SubSeq(effects', 1, n) = effects
                /\ LET e == effects'[n + 1]
                   IN /\ e.type = (IF call.fn = "debit" THEN "accountDebited" ELSE "accountCredited")
                      /\ e.amount = call.amount
                      /\ e.asset = call.asset
                      /\ e.source = call.source
                      /\ IF call.balance = <<>>
                         THEN ~Has(e, "balance")
                         ELSE HasEq(e, "balance", call.balance[1])
      ]_vars

\* A call with amount '0' has left alone the list a call before it filled.
ZeroAmountSuppressionWitness ==
    /\ pc = "primitive"
    /\ idx = 2
    /\ calls[1].amount = 5
    /\ calls[2].amount = 0
    /\ calls[2].fn = "debit"
    /\ Len(effects) = 1

\* C6: an updated account or trustline change whose balance differs adds
\* exactly one debit or credit effect, for that account and asset: a credit
\* of after - before when the balance rose, a debit of before - after when it
\* fell, with balance the after balance.
BalanceChangeConservation ==
    [][ (/\ NextItem[1] = "changes"
         /\ changes[NextItem[2]].type \in {"account", "trustline"}
         /\ changes[NextItem[2]].action = "updated"
         /\ changes[NextItem[2]].before.balance # changes[NextItem[2]].after.balance) =>
        LET change == changes[NextItem[2]]
            before == change.before
            after == change.after
            account == IF change.type = "account" THEN after.address ELSE after.account
            asset == IF change.type = "account" THEN XLM ELSE after.asset
            moved == OfType(AddedEffects, {"accountDebited", "accountCredited"})
        IN /\ Len(moved) = 1
           /\ moved[1].source = account
           /\ moved[1].asset = asset
           /\ HasEq(moved[1], "balance", after.balance)
           /\ IF after.balance > before.balance
              THEN moved[1].type = "accountCredited" /\ moved[1].amount = after.balance - before.balance
              ELSE moved[1].type = "accountDebited" /\ moved[1].amount = before.balance - after.balance
      ]_vars

\* The account balance went from 100 to 150: one credit of 50, balance 150.
BalanceChangeConservationWitness ==
    /\ pc = "changes"
    /\ error = ""
    /\ changes[idx].type = "account"
    /\ changes[idx].action = "updated"
    /\ changes[idx].before.balance = 100
    /\ changes[idx].after.balance = 150
    /\ Len(effects) = 1
    /\ effects[1].type = "accountCredited"
    /\ effects[1].amount = 50
    /\ effects[1].balance = 150

\* C7: a removed trustline change appends, when before.balance > 0, an
\* accountDebited effect for the whole before balance with balance '0' and
\* next to it the trustlineRemoved effect; with before.balance = 0 it appends
\* the trustlineRemoved effect alone.
TrustlineRemovalDebitsFirst ==
    [][ (/\ NextItem[1] = "changes"
         /\ changes[NextItem[2]].type = "trustline"
         /\ changes[NextItem[2]].action = "removed") =>
        LET before == changes[NextItem[2]].before
            n == Len(effects)
            IsRemoval(e) == e.type = "trustlineRemoved" /\ e.source = before.account /\ e.asset = before.asset
        IN IF before.balance > 0
           THEN /\ Len(effects') = n + 2
                /\ SubSeq(effects', 1, n) = effects
                /\ effects'[n + 1].type = "accountDebited"
                /\ effects'[n + 1].source = before.account
                /\ effects'[n + 1].asset = before.asset
                /\ effects'[n + 1].amount = before.balance
                /\ HasEq(effects'[n + 1], "balance", 0)
                /\ IsRemoval(effects'[n + 2])
           ELSE /\ Len(effects') = n + 1
                /\ SubSeq(effects', 1, n) = effects
                /\ IsRemoval(effects'[n + 1])
      ]_vars

\* A trustline with balance 40 was removed: the debit of 40 to balance 0 and
\* the removal end the list.
TrustlineRemovalDebitsFirstWitness ==
    /\ pc = "changes"
    /\ error = ""
    /\ changes[idx].type = "trustline"
    /\ changes[idx].action = "removed"
    /\ changes[idx].before.balance = 40
    /\ Len(effects) >= 2
    /\ effects[Len(effects) - 1].type = "accountDebited"
    /\ effects[Len(effects) - 1].amount = 40
    /\ effects[Len(effects) - 1].balance = 0
    /\ effects[Len(effects)].type = "trustlineRemoved"

\* A string with the contract-address prefix and length.
ContractAddressed(s) == s.prefix = "C" /\ s.len = 56

\* The step under way handles a transfer event.
TransferStep ==
    /\ NextItem[1] = "diagnosticEvents"
    /\ diagnosticEvents[NextItem[2]].inSuccessfulContractCall
    /\ TopicName(diagnosticEvents[NextItem[2]].body.topics) = "transfer"

\* C8: a transfer event of a classic asset adds a debit only if from is a
\* contract address and a credit only if to is one, and with neither a
\* contract address it leaves the effect list as it was. The asset of a
\* transfer event is the id of the emitting contract: the code takes it for
\* classic when it is a contract address, and the one id that carries no
\* contract-address prefix is null; the property is stated for both.
ClassicTransferBooksContractSidesOnly ==
    [][ TransferStep =>
        LET topics == diagnosticEvents[NextItem[2]].body.topics
            from == topics[2].addr
            to == topics[3].addr
        IN /\ OfType(AddedEffects, {"accountDebited"}) # <<>> => ContractAddressed(from)
           /\ OfType(AddedEffects, {"accountCredited"}) # <<>> => ContractAddressed(to)
           /\ (~ContractAddressed(from) /\ ~ContractAddressed(to)) => effects' = effects
      ]_vars

\* A transfer between two accounts was handled first and added nothing.
ClassicTransferBooksContractSidesOnlyWitness ==
    /\ pc = "diagnosticEvents"
    /\ error = ""
    /\ idx = 1
    /\ TopicName(diagnosticEvents[1].body.topics) = "transfer"
    /\ ContractAddressed(diagnosticEvents[1].contractId)
    /\ diagnosticEvents[1].body.topics[2].addr = GA
    /\ diagnosticEvents[1].body.topics[3].addr = GB
    /\ effects = <<>>

\* C9: a transfer event whose asset id carries the contract-address prefix
\* adds an accountDebited effect for from and an accountCredited effect for
\* to, whatever from and to are.
ContractAssetTransferBooksBothSides ==
    [][ (TransferStep /\ ContractAddressed(diagnosticEvents[NextItem[2]].contractId)) =>
        LET topics == diagnosticEvents[NextItem[2]].body.topics
            from == topics[2].addr
            to == topics[3].addr
            debits == OfType(AddedEffects, {"accountDebited"})
            credits == OfType(AddedEffects, {"accountCredited"})
        IN /\ \E i \in 1..Len(debits) : debits[i].source = from
           /\ \E i \in 1..Len(credits) : credits[i].source = to
      ]_vars

\* C10: a clawback event, whatever its topics, ends the analysis with an
\* error and adds no effect.
ClawbackAborts ==
    [][ (/\ NextItem[1] = "diagnosticEvents"
         /\ TopicName(diagnosticEvents[NextItem[2]].body.topics) = "clawback") =>
            (error' # "" /\ effects' = effects) ]_vars

\* A clawback event of the declared shape has ended the analysis, the list
\* being as the event before it left it.
ClawbackAbortsWitness ==
    /\ pc = "diagnosticEvents"
    /\ idx = 2
    /\ TopicName(diagnosticEvents[2].body.topics) = "clawback"
    /\ Len(diagnosticEvents[2].body.topics) = 3
    /\ TopicName(diagnosticEvents[1].body.topics) = "mint"
    /\ error = "Error: Check state modifications to confirm the clawback destination"
    /\ Len(effects) = 2
    /\ NextItem[1] = "none"

\* The step under way handles a diagnostic event with one of these names.
EventStep(names) ==
    /\ NextItem[1] = "diagnosticEvents"
    /\ diagnosticEvents[NextItem[2]].inSuccessfulContractCall
    /\ TopicName(diagnosticEvents[NextItem[2]].body.topics) \in names

\* The shape declared for the topics that follow an event name.
DeclaredShape(name) ==
    IF name = "burn"
    THEN <<Shape("address", FALSE), Shape("str", TRUE)>>
    ELSE <<Shape("address", FALSE), Shape("address", FALSE), Shape("str", TRUE)>>

\* C11: a mint or burn event with a topic of another kind than the one
\* declared for its position, or without a topic declared required, ends the
\* analysis with the non-standard-event error and leaves the effect list as
\* it was; an event whose only absent topics are optional ones, and that has
\* no topic past the shape, is accepted and adds its two effects.
TopicShapeValidation ==
    [][ EventStep({"mint", "burn"}) =>
        LET topics == diagnosticEvents[NextItem[2]].body.topics
            shape == DeclaredShape(TopicName(topics))
            wrongKind == \E i \in 1..Len(shape) :
                            i + 1 <= Len(topics) /\ topics[i + 1].arm # shape[i].match
            missing == \E i \in 1..Len(shape) : i + 1 > Len(topics) /\ ~shape[i].optional
        IN IF wrongKind \/ missing
           THEN error' = "Error: Non-standard event" /\ effects' = effects
           ELSE Len(topics) <= Len(shape) + 1 =>
                    (error' = "" /\ Len(effects') = Len(effects) + 2)
      ]_vars

\* A mint without its optional topic was accepted, then a mint without its
\* second address ended the analysis, the list being as the first left it.
TopicShapeValidationWitness ==
    /\ pc = "diagnosticEvents"
    /\ idx = 2
    /\ TopicName(diagnosticEvents[1].body.topics) = "mint"
    /\ Len(diagnosticEvents[1].body.topics) = 3
    /\ TopicName(diagnosticEvents[2].body.topics) = "mint"
    /\ Len(diagnosticEvents[2].body.topics) = 2
    /\ error = "Error: Non-standard event"
    /\ Len(effects) = 2
    /\ effects[1].type = "assetMinted"

\* The sponsor of the change's entry appeared, changed or disappeared.
SponsorChanged(change) ==
    LET Sponsor(snapshot) == IF Has(snapshot, "sponsor") THEN <<snapshot.sponsor>> ELSE <<>>
    IN CASE change.action = "created" -> Sponsor(change.after) # <<>>
         [] change.action = "updated" -> Sponsor(change.before) # Sponsor(change.after)
         [] change.action = "removed" -> Sponsor(change.before) # <<>>
         [] OTHER -> TRUE

\* The entity kinds whose sponsorship the naming table names and the pass
\* surfaces.
NamedKinds == {"account", "trustline", "offer", "data", "claimableBalance"}

\* C12: a change with a sponsor change adds one sponsorship effect of the
\* type the table gives for its kind and action when the table has the pair,
\* and ends the analysis with an error, adding nothing, when the kind or the
\* action is not in the table (liquidity pool changes, which the pass leaves
\* out on purpose, aside).
SponsorshipMatrix ==
    [][ (/\ NextItem[1] = "sponsorship"
         /\ SponsorChanged(changes[NextItem[2]])
         /\ changes[NextItem[2]].type # "liquidityPool") =>
        LET change == changes[NextItem[2]]
            actionKey == CASE change.action = "created" -> "Created"
                           [] change.action = "updated" -> "Updated"
                           [] change.action = "removed" -> "Removed"
                           [] OTHER -> ""
        IN IF change.type \in NamedKinds /\ actionKey # ""
           THEN /\ error' = ""
                /\ Len(AddedEffects) = 1
                /\ HasEq(AddedEffects[1], "type", change.type \o "Sponsorship" \o actionKey)
           ELSE error' # "" /\ effects' = effects
      ]_vars

\* C13: the step of the contract data pass adds at most its own contract data
\* effect at the end of the list and raises no error. When the key is
\* ("Balance", address) and exactly one effect of the list is a debit or
\* credit of that address in the contract's asset, that effect gets balance
\* set to the amount written, or to '0' for a removed entry; in every other
\* case, and for every other effect, the effects of the list stay as they
\* were.
ContractBalanceCorrelation ==
    [][ NextItem[1] = "contractData" =>
        LET change == changes[NextItem[2]]
            snapshot == IF Has(change, "after") THEN change.after ELSE change.before
            key == snapshot.key
            isBalanceKey == /\ key.arm = "vec"
                            /\ Len(key.parts) = 2
                            /\ key.parts[1] = Sym("Balance")
                            /\ key.parts[2].arm = "address"
            n == Len(effects)
            matches == { i \in 1..n : /\ Has(effects[i], "type")
                                      /\ effects[i].type \in {"accountDebited", "accountCredited"}
                                      /\ effects[i].source = key.parts[2].addr
                                      /\ HasEq(effects[i], "asset", snapshot.owner) }
            written == IF change.action = "removed" THEN <<0>>
                       ELSE IF change.after.value.arm = "map" /\ change.after.value.typed
                            THEN <<change.after.value.amount>>
                            ELSE <<>>
            unchanged == change.action = "updated" /\ change.before.value = change.after.value
        IN /\ error' = ""
           /\ IF unchanged THEN Len(effects') = n
              ELSE /\ Len(effects') = n + 1
                   /\ effects'[n + 1].type \in
                         {"contractDataCreated", "contractDataUpdated", "contractDataRemoved"}
           /\ \A i \in 1..n :
                 IF isBalanceKey /\ matches = {i} /\ written # <<>> /\ ~unchanged
                 THEN effects'[i] = ("balance" :> written[1]) @@ effects[i]
                 ELSE effects'[i] = effects[i]
      ]_vars

\* The one credit of contract CB in asset CA, added by a transfer event, has
\* got the balance the contract data change wrote.
ContractBalanceCorrelationWitness ==
    /\ pc = "contractData"
    /\ error = ""
    /\ Len(effects) = 2
    /\ HasEq(effects[1], "type", "accountCredited")
    /\ HasEq(effects[1], "source", CB)
    /\ HasEq(effects[1], "asset", CA)
    /\ HasEq(effects[1], "balance", 9)
    /\ HasEq(effects[2], "type", "contractDataUpdated")

\* The effect names the pool, as its pool or as its asset.
ReferencesPool(e, pool) == HasEq(e, "pool", pool) \/ HasEq(e, "asset", pool)

\* C14: a created liquidity pool change adds one liquidityPoolCreated effect,
\* and when effects of the list reference the pool the new effect stands
\* right before the first of them; in the list returned every
\* liquidityPoolCreated effect precedes the effects referencing its pool
\* that existed when it was inserted.
LiquidityPoolCreatedPlacement ==
    /\ [][ (/\ NextItem[1] = "changes"
             /\ changes[NextItem[2]].type = "liquidityPool"
             /\ changes[NextItem[2]].action = "created") =>
            LET pool == changes[NextItem[2]].after.pool
                n == Len(effects)
                refs == { i \in 1..n : ReferencesPool(effects[i], pool) }
            IN /\ Len(effects') = n + 1
               /\ Len(AddedEffects) = 1
               /\ AddedEffects[1].type = "liquidityPoolCreated"
               /\ AddedEffects[1].pool = pool
               /\ refs # {} =>
                     LET first == CHOOSE i \in refs : \A j \in refs : i <= j
                     IN effects' = SubSeq(effects, 1, first - 1) \o AddedEffects
                                   \o SubSeq(effects, first, n)
          ]_vars
    /\ [](pc = "return" =>
            \A p, q \in 1..Len(effects) :
                (/\ HasEq(effects[p], "type", "liquidityPoolCreated")
                 /\ ReferencesPool(effects[q], effects[p].pool)
                 /\ effects[q].oid < effects[p].oid) => p < q)

\* The pool's creation was reported third: its effect stands between the
\* account credit and the credit of pool shares that were in the list.
LiquidityPoolCreatedPlacementWitness ==
    /\ pc = "changes"
    /\ idx = 3
    /\ changes[3].type = "liquidityPool"
    /\ changes[3].action = "created"
    /\ Len(effects) = 3
    /\ HasEq(effects[1], "asset", XLM)
    /\ HasEq(effects[2], "type", "liquidityPoolCreated")
    /\ HasEq(effects[3], "asset", POOL)

\* C15: during change classification an updated trustline change with the
\* same balance, limit and flags before and after, and an updated offer
\* change with the same price, asset pair and amount, leave the effect list
\* as it was.
NoOpSuppression ==
    [][ (/\ NextItem[1] = "changes"
         /\ changes[NextItem[2]].action = "updated"
         /\ LET before == changes[NextItem[2]].before
                after == changes[NextItem[2]].after
            IN \/ /\ changes[NextItem[2]].type = "trustline"
                  /\ before.balance = after.balance
                  /\ before.limit = after.limit
                  /\ before.flags = after.flags
               \/ /\ changes[NextItem[2]].type = "offer"
                  /\ before.price = after.price
                  /\ before.asset = after.asset
                  /\ before.amount = after.amount) =>
            (effects' = effects /\ error' = "")
      ]_vars

\* An offer was created, then an update of it that changes none of the
\* compared fields was classified: the list holds the creation alone.
NoOpSuppressionWitness ==
    /\ pc = "changes"
    /\ idx = 2
    /\ changes[2].type = "offer"
    /\ changes[2].action = "updated"
    /\ changes[2].before.amount = changes[2].after.amount
    /\ Len(effects) = 1
    /\ HasEq(effects[1], "type", "offerCreated")

\* The step under way is the handler of a liquidityPoolDeposit operation
\* whose pool has an updated change.
DepositStep ==
    /\ NextItem[1] = "operation"
    /\ operation.type = "liquidityPoolDeposit"
    /\ \E k \in 1..Len(changes) :
          /\ changes[k].type = "liquidityPool"
          /\ changes[k].action = "updated"
          /\ changes[k].after.pool = operation.liquidityPoolId

\* C16: the handler of a liquidityPoolDeposit operation adds exactly one
\* liquidityPoolDeposited effect, taken from the first updated change of the
\* operation's pool, whose amount for each asset is after.amount[i] -
\* before.amount[i] and whose shares are after.shares - before.shares.
LiquidityPoolDepositDeltas ==
    [][ DepositStep =>
        LET k == CHOOSE k \in 1..Len(changes) :
                    /\ changes[k].type = "liquidityPool"
                    /\ changes[k].action = "updated"
                    /\ changes[k].after.pool = operation.liquidityPoolId
                    /\ \A j \in 1..(k - 1) :
                          ~(/\ changes[j].type = "liquidityPool"
                            /\ changes[j].action = "updated"
                            /\ changes[j].after.pool = operation.liquidityPoolId)
            before == changes[k].before
            after == changes[k].after
        IN /\ Len(effects') = Len(effects) + 1
           /\ Len(AddedEffects) = 1
           /\ AddedEffects[1].type = "liquidityPoolDeposited"
           /\ AddedEffects[1].pool = operation.liquidityPoolId
           /\ Len(AddedEffects[1].assets) = Len(after.asset)
           /\ \A i \in 1..Len(after.asset) :
                 /\ AddedEffects[1].assets[i].asset = after.asset[i]
                 /\ AddedEffects[1].assets[i].amount = BigIntMinus(after.amount[i], before.amount[i])
           /\ AddedEffects[1].shares = BigIntMinus(after.shares, before.shares)
      ]_vars

\* C17: a created contract change adds nothing when the list holds a
\* contractCreated effect of the same contract id and adds one contractCreated
\* effect of that id otherwise; the list never holds two contractCreated
\* effects of one contract id.
ContractCreatedOnce ==
    /\ [][ (/\ NextItem[1] = "changes"
             /\ changes[NextItem[2]].type = "contract"
             /\ changes[NextItem[2]].action = "created") =>
            LET contract == changes[NextItem[2]].after.contract
                recorded == \E i \in 1..Len(effects) :
                               /\ HasEq(effects[i], "type", "contractCreated")
                               /\ HasEq(effects[i], "contract", contract)
            IN IF recorded
               THEN effects' = effects
               ELSE /\ Len(AddedEffects) = 1
                    /\ HasEq(AddedEffects[1], "type", "contractCreated")
                    /\ HasEq(AddedEffects[1], "contract", contract)
          ]_vars
    /\ [](\A i, j \in 1..Len(effects) :
            (/\ HasEq(effects[i], "type", "contractCreated")
             /\ HasEq(effects[j], "type", "contractCreated")
             /\ effects[i].contract = effects[j].contract) => i = j)

StageRank(stage) ==
    CASE stage = "constructed" -> 0
      [] stage = "operation" -> 1
      [] stage = "changes" -> 2
      [] stage = "sponsorship" -> 3
      [] stage = "diagnosticEvents" -> 4
      [] stage = "events" -> 5
      [] stage = "supply" -> 6
      [] stage = "contractData" -> 7
      [] stage = "return" -> 8

\* The effects that addEffect receives a position for.
PositionInserted(e) ==
    \/ HasEq(e, "type", "liquidityPoolCreated")
    \/ HasEq(e, "type", "assetMinted")
    \/ HasEq(e, "type", "assetBurned")

\* C19: the steps of analyze() run in the order operation handler, change
\* classification, sponsorship pass, diagnostic events, contract events,
\* supply reconciliation, contract data pass, return; and every effect a step
\* adds, position-inserted ones aside, lies after every effect the list held
\* before the step. Hence in the returned list the effects of an earlier
\* stage precede those of a later one.
StageOrder ==
    [][ /\ StageRank(pc') >= StageRank(pc)
        /\ \A i, j \in 1..Len(effects') :
              (/\ effects'[i].oid <= allocated
               /\ effects'[j].oid > allocated
               /\ ~PositionInserted(effects'[j])) => i < j
      ]_vars

\* A returned list with an effect of the handler, of the classifier, of the
\* sponsorship pass, of a diagnostic event, of a contract event and of the
\* contract data pass.
StageOrderWitness ==
    /\ pc = "return"
    /\ \E h \in 1..Len(effects) :
         /\ HasEq(effects[h], "type", "contractCreated")
         /\ \E c \in (h + 1)..Len(effects) :
              /\ HasEq(effects[c], "type", "accountCreated")
              /\ \E s \in (c + 1)..Len(effects) :
                   /\ HasEq(effects[s], "type", "accountSponsorshipCreated")
                   /\ \E d \in (s + 1)..Len(effects) :
                        /\ HasEq(effects[d], "type", "accountDebited")
                        /\ \E e \in (d + 1)..Len(effects) :
                             /\ HasEq(effects[e], "type", "contractEvent")
                             /\ \E k \in (e + 1)..Len(effects) :
                                  HasEq(effects[k], "type", "contractDataCreated")

\* The event of the step under way has the event name, a topic of the
\* declared kind in every position of its shape, and extra topics after them.
TopicsBeyondShape(extra) ==
    LET topics == diagnosticEvents[NextItem[2]].body.topics
        shape == DeclaredShape(TopicName(topics))
    IN /\ Len(topics) = 1 + Len(shape) + extra
       /\ \A i \in 1..Len(shape) : topics[i + 1].arm = shape[i].match

\* C20: a mint, burn or clawback event with one topic after those of its
\* declared shape passes the topic-shape validation: the step does not end
\* with the non-standard-event error.
ExtraTopicUnchecked ==
    [][ (EventStep({"mint", "burn", "clawback"}) /\ TopicsBeyondShape(1)) =>
            error' # "Error: Non-standard event" ]_vars

\* C20, amended: a mint, burn or clawback event with one topic after those of
\* its declared shape fails the topic-shape validation: the step ends the
\* analysis with the non-standard-event error and adds nothing, while the same
\* event without the extra topic passes it.
ExtraTopicRejected ==
    [][ EventStep({"mint", "burn", "clawback"}) =>
          /\ TopicsBeyondShape(1) => (error' = "Error: Non-standard event" /\ effects' = effects)
          /\ TopicsBeyondShape(0) => error' # "Error: Non-standard event"
      ]_vars

\* A mint with a fourth topic after its name ended the analysis after a burn
\* with every declared topic had been accepted.
ExtraTopicRejectedWitness ==
    /\ pc = "diagnosticEvents"
    /\ idx = 2
    /\ TopicName(diagnosticEvents[1].body.topics) = "burn"
    /\ Len(diagnosticEvents[1].body.topics) = 3
    /\ TopicName(diagnosticEvents[2].body.topics) = "mint"
    /\ Len(diagnosticEvents[2].body.topics) = 5
    /\ error = "Error: Non-standard event"
    /\ Len(effects) = 2

\* The operation is a trustline flags operation.
IsFlagsOperation == operation.type \in {"allowTrust", "setTrustLineFlags"}

\* A change of the list revokes the authorization of a trustline: the
\* AUTHORIZED flag (1) is set before and clear after.
RevokesAuthorization ==
    \E i \in 1..Len(changes) :
        /\ changes[i].type = "trustline"
        /\ changes[i].action = "updated"
        /\ changes[i].before.flags % 2 = 1
        /\ changes[i].after.flags % 2 = 0

\* C21: the handler of a trustline flags operation whose changes revoke no
\* trustline authorization adds no liquidityPoolWithdrew effect, whatever
\* liquidity pool changes the list holds.
WithdrawalsOnlyOnRevocation ==
    [][ (NextItem[1] = "operation" /\ IsFlagsOperation /\ ~RevokesAuthorization) =>
            \A i \in 1..Len(effects') : ~HasEq(effects'[i], "type", "liquidityPoolWithdrew") ]_vars

\* The storage list of a contract snapshot, [] when it has none.
StorageOf(snapshot) == IF Has(snapshot, "storage") THEN snapshot.storage ELSE <<>>

UniqueKeys(storage) ==
    \A i, j \in 1..Len(storage) : storage[i].key = storage[j].key => i = j

\* What an instance storage effect says: its type, key, value and previous
\* value.
Described(e) ==
    <<e.type, e.key, IF Has(e, "value") THEN <<e.value>> ELSE <<>>,
      IF Has(e, "prevValue") THEN <<e.prevValue>> ELSE <<>>>>

\* The effects C22 gives for two storage lists: for the keys of the before
\* list, in its order, a removal when the after list lacks the key and an
\* update when it holds another value; then a creation for each key of the
\* after list that the before list lacks, in the after list's order.
StorageDifference(storageBefore, storageAfter) ==
    LET InAfter(b) == \E i \in 1..Len(storageAfter) : storageAfter[i].key = b.key
        ValueAfter(b) == storageAfter[CHOOSE i \in 1..Len(storageAfter) : storageAfter[i].key = b.key].val
        changed == SelectSeq(storageBefore, LAMBDA b : InAfter(b) => ValueAfter(b) # b.val)
        created == SelectSeq(storageAfter, LAMBDA a :
                       \A i \in 1..Len(storageBefore) : storageBefore[i].key # a.key)
    IN [i \in 1..Len(changed) |->
          IF InAfter(changed[i])
          THEN <<"contractDataUpdated", changed[i].key, <<ValueAfter(changed[i])>>, <<changed[i].val>>>>
          ELSE <<"contractDataRemoved", changed[i].key, <<>>, <<changed[i].val>>>>]
       \o [i \in 1..Len(created) |->
             <<"contractDataCreated", created[i].key, <<created[i].val>>, <<>>>>]

\* C22: for an updated contract change whose storage lists have unique keys,
\* the step adds exactly the removals and updates of the before list in its
\* order, then the creations of the after list in its order, nothing for a
\* key with an equal value, all with durability instance and the contract as
\* owner, whether or not the code hash changed; a changed hash adds one
\* contractUpdated effect after them.
InstanceStorageDifference ==
    [][ (/\ NextItem[1] = "changes"
         /\ changes[NextItem[2]].type = "contract"
         /\ changes[NextItem[2]].action = "updated"
         /\ UniqueKeys(StorageOf(changes[NextItem[2]].before))
         /\ UniqueKeys(StorageOf(changes[NextItem[2]].after))) =>
        LET before == changes[NextItem[2]].before
            after == changes[NextItem[2]].after
            expected == StorageDifference(StorageOf(before), StorageOf(after))
            added == AddedEffects
        IN /\ Len(added) = Len(expected) + (IF before.hash = after.hash THEN 0 ELSE 1)
           /\ \A i \in 1..Len(expected) :
                 /\ HasEq(added[i], "durability", "instance")
                 /\ HasEq(added[i], "owner", after.contract)
                 /\ Described(added[i]) = expected[i]
           /\ before.hash # after.hash => HasEq(added[Len(added)], "type", "contractUpdated")
           /\ SubSeq(effects', 1, Len(effects)) = effects
      ]_vars

\* With the code hash unchanged, a key only in the before list, a key in both
\* with another value and a key only in the after list gave a removal, an
\* update and a creation, in that order, after the handler's effect.
InstanceStorageDifferenceWitness ==
    /\ pc = "changes"
    /\ changes[idx].type = "contract"
    /\ changes[idx].action = "updated"
    /\ changes[idx].before.hash = changes[idx].after.hash
    /\ Len(effects) = 4
    /\ HasEq(effects[1], "type", "contractInvoked")
    /\ HasEq(effects[2], "type", "contractDataRemoved")
    /\ HasEq(effects[3], "type", "contractDataUpdated")
    /\ HasEq(effects[4], "type", "contractDataCreated")

\* The operation invokes a contract.
InvokesContract ==
    operation.type = "invokeHostFunction" /\ operation.func.arm = "invokeContract"

\* The fn_call events of a list that no open call encloses.
TopLevelCalls(list) ==
    { k \in 1..Len(list) : IsFnCall(list[k]) /\ OpenCalls(list, k - 1) = <<>> }

\* The contractInvoked effects of a list that have no depth field.
TopLevelInvocations(effs) ==
    SelectSeq(OfType(effs, {"contractInvoked"}), LAMBDA e : ~Has(e, "depth"))

\* C23: the handler of a contract invocation adds the contractInvoked effect,
\* and nothing else, when no diagnostic events were supplied, and adds nothing
\* when they were; the list returned for well-nested diagnostic events with
\* one top-level fn_call holds exactly one contractInvoked effect without
\* depth.
TopLevelInvocationOnce ==
    /\ [][ (NextItem[1] = "operation" /\ InvokesContract) =>
            IF diagnosticEvents = <<>>
            THEN /\ Len(AddedEffects) = 1
                 /\ Len(TopLevelInvocations(AddedEffects)) = 1
                 /\ HasEq(AddedEffects[1], "contract", operation.func.contractAddress)
                 /\ HasEq(AddedEffects[1], "function", operation.func.functionName)
            ELSE effects' = effects
          ]_vars
    /\ []((/\ pc = "return"
            /\ InvokesContract
            /\ diagnosticEvents # <<>>
            /\ WellNested(diagnosticEvents)
            /\ Cardinality(TopLevelCalls(diagnosticEvents)) = 1)
           => Len(TopLevelInvocations(effects)) = 1)

\* A list was returned for a top-level call that encloses a nested call.
TopLevelInvocationOnceWitness ==
    /\ pc = "return"
    /\ InvokesContract
    /\ Len(diagnosticEvents) = 4
    /\ WellNested(diagnosticEvents)
    /\ Cardinality(TopLevelCalls(diagnosticEvents)) = 1
    /\ Len(OfType(effects, {"contractInvoked"})) = 2
    /\ Len(TopLevelInvocations(effects)) = 1

\* C24: a created liquidity pool change whose pool no effect of the list
\* references puts its liquidityPoolCreated effect at index 0, ahead of every
\* effect the list held; and on every list the engine reaches, mint with
\* automatic position lookup, for an asset that no effect of the list names,
\* puts its assetMinted effect at index 0 likewise.
LookupMissInsertsFirst ==
    /\ [][ (/\ NextItem[1] = "changes"
             /\ changes[NextItem[2]].type = "liquidityPool"
             /\ changes[NextItem[2]].action = "created"
             /\ \A i \in 1..Len(effects) :
                   ~ReferencesPool(effects[i], changes[NextItem[2]].after.pool)) =>
            (/\ Len(AddedEffects) = 1
             /\ HasEq(AddedEffects[1], "type", "liquidityPoolCreated")
             /\ effects' = AddedEffects \o effects)
          ]_vars
    /\ [](\A asset \in {XLM, USD, CA} :
            (\A i \in 1..Len(effects) : ~MatchesAsset(effects[i], asset)) =>
                LET minted == mint(Current, asset, 1, TRUE).effects
                IN /\ Len(minted) = Len(effects) + 1
                   /\ HasEq(minted[1], "type", "assetMinted")
                   /\ HasEq(minted[1], "asset", asset)
                   /\ SubSeq(minted, 2, Len(minted)) = effects)

\* The supply pass minted with position lookup an asset no effect named: its
\* effect stands first, ahead of a liquidityPoolCreated effect that an
\* earlier lookup without a match had put ahead of the effects before it.
LookupMissInsertsFirstWitness ==
    /\ pc = "supply"
    /\ error = ""
    /\ Len(effects) >= 3
    /\ HasEq(effects[1], "type", "assetMinted")
    /\ effects[1].oid = allocated
    /\ \A i \in 2..Len(effects) : ~MatchesAsset(effects[i], effects[1].asset)
    /\ HasEq(effects[2], "type", "liquidityPoolCreated")
    /\ \A i \in 3..Len(effects) :
          effects[i].oid < effects[2].oid => ~ReferencesPool(effects[i], effects[2].pool)
    /\ \E i \in 3..Len(effects) : effects[i].oid < effects[2].oid
====
